---- MODULE Spec2Model ----
(***************************************************************************)
(* Filecoin claims importer (main.go of the claims importer service).      *)
(* One run of runFromTodayDumpOnce is a sequence of steps, each step one   *)
(* interaction with the file system, the chain node or the MongoDB         *)
(* collection.  The environment is the dump producer (writes the file),    *)
(* an external writer of the collection that also upserts by the           *)
(* uniqueness tuple, and the MongoDB server.                                *)
(*                                                                         *)
(* MongoDB upsert: with the unique index uniq_claim_tuple in place an      *)
(* upsert is an atomic insert-if-absent (a racing insert ends in a         *)
(* duplicate-key error or a retry that matches).  Without the index the    *)
(* query phase and the insert phase of an upsert are separate steps, so    *)
(* two upserts of one tuple may both insert (MongoDB manual, "Upsert with  *)
(* Duplicate Values").  connectMongo discards the error of the index       *)
(* creation, so both cases are states of the program.                      *)
(*                                                                         *)
(* Two more parts of the repository are modelled as functions called on    *)
(* their own: the epoch conversions EpochToTime and EpochToTime64 of       *)
(* package model, and util.AddTasks of the filplus integration, which      *)
(* turns claims into retrieval tasks or failed results.                    *)
(***************************************************************************)
EXTENDS Integers, Sequences, FiniteSets, TLC

(***************************** bounds **************************************)
\* number of records of the dump (claim ids 1..MaxClaims)
MaxClaims == 2
\* runs of runFromTodayDumpOnce per pipeline instance
MaxRuns == 2
\* upserts of the external writer
MaxExt == 1
\* runs per pipeline instance when two instances run side by side
MaxConcRuns == 1
\* size of the complete dump file; the producer grows it one unit at a time
MaxSize == 3
\* runs per process under the scheduler of main
MaxSchedRuns == 3
\* ticks that fall due between two calls of a run
MaxDue == 2
\* candidates in a list handed to insertDiffClaims on its own
MaxList == 4
MaxDocs == 2
\* runs counted and clock readings told apart when runs go on for ever
MaxLiveRuns == 2
\* the largest unsigned integer of the model, for 2^64 - 1 of uint64
MaxUint == 2047
\* the largest signed integer of the model, for 2^63 - 1 of int64
MaxInt == 1023

(************************* program constants *******************************)
stableCheckRetries == 3
DefaultBulkSize == 2000
\* package model: Unix time of the mainnet genesis, seconds per epoch
filecoinGenesisUnix == 1598306400
epochDurationSec == 30

\* pipeline instances (processes running main); Spec runs instance 1 alone
Insts == {1, 2}
\* miner actors listed by the chain node, by numeric actor id
Miners == {1001, 1002}
\* values of CLAIMS_BULK_SIZE
BulkSizes == {0, 1}

(************************* formatting **************************************)
Digits == <<"0", "1", "2", "3", "4", "5", "6", "7", "8", "9">>

RECURSIVE DecU(_)
\* fmt %d of a non-negative integer, as a sequence of characters
DecU(n) == IF n < 10 THEN <<Digits[n + 1]>>
           ELSE DecU(n \div 10) \o <<Digits[(n % 10) + 1]>>

\* fmt %d of a signed integer
Dec(n) == IF n < 0 THEN <<"-">> \o DecU(-n) ELSE DecU(n)

\* int64(x) of a uint64 x: the value itself below 2^63, and every actor id,
\* sector and epoch of the model is below 2^31
ToInt64(u) == u

\* (mutant) the fields are joined without a separator
claimKeyJoined(providerID, dataCID, sector, termStart) ==
    Dec(providerID) \o dataCID \o Dec(sector) \o Dec(termStart)

\* fmt.Sprintf("%d|%s|%d|%d", providerID, dataCID, sector, termStart)
claimKey(providerID, dataCID, sector, termStart) ==
    Dec(providerID) \o <<"|">> \o dataCID \o <<"|">> \o Dec(sector)
        \o <<"|">> \o Dec(termStart)

\* (mutant) the address is the digits of the id without the prefix
MinerAddrBare(provider) == DecU(provider)

\* fmt.Sprintf("f0%d", uint64(c.Provider))
MinerAddr(provider) == <<"f", "0">> \o DecU(provider)

(************************* JSON decoding ***********************************)
\* a JSON value as json.Unmarshal sees it: a string with its content, a
\* number with its literal, null, or an object with its members in order
JStr(s) == [t |-> "str", s |-> s, m |-> <<>>]
JNum(lit) == [t |-> "num", s |-> lit, m |-> <<>>]
JNull == [t |-> "null", s |-> <<>>, m |-> <<>>]
JObj(members) == [t |-> "obj", s |-> <<>>, m |-> members]

\* b[0], the first byte of the text of the value
FirstByte(b) ==
    CASE b.t = "str" -> "\""
      [] b.t = "obj" -> "{"
      [] b.t = "null" -> "n"
      [] OTHER -> b.s[1]

\* results of a decoder: the value, or an error
Ok(v) == [ok |-> TRUE, v |-> v]
Err(zero) == [ok |-> FALSE, v |-> zero]

\* the value of a decimal digit, -1 for any other character
DigitVal(ch) ==
    IF \E d \in 0..9 : Digits[d + 1] = ch
    THEN CHOOSE d \in 0..9 : Digits[d + 1] = ch
    ELSE -1

RECURSIVE Accumulate(_, _, _)
\* the digits of s read from the left onto acc: the number, or -1 for a
\* character that is no digit or a number above limit
Accumulate(s, acc, limit) ==
    IF s = <<>> THEN acc
    ELSE LET d == DigitVal(Head(s)) IN
         IF d < 0 \/ acc * 10 + d > limit THEN -1
         ELSE Accumulate(Tail(s), acc * 10 + d, limit)

\* (mutant) the string is read in base 8
ParseUintOctal(s) ==
    LET RECURSIVE Oct(_, _)
        Oct(t, acc) == IF t = <<>> THEN acc
                       ELSE Oct(Tail(t), acc * 8 + DigitVal(Head(t)))
    IN IF s = <<>> THEN Err(0) ELSE Ok(Oct(s, 0))

\* strconv.ParseUint(s, 10, 64): digits only, no sign, within range
ParseUint(s) ==
    IF s = <<>> THEN Err(0)
    ELSE LET n == Accumulate(s, 0, MaxUint) IN
         IF n < 0 THEN Err(0) ELSE Ok(n)

\* strconv.ParseInt(s, 10, 64): an optional sign, digits, within range
ParseInt(s) ==
    IF s = <<>> THEN Err(0)
    ELSE LET neg == Head(s) = "-"
             body == IF Head(s) \in {"-", "+"} THEN Tail(s) ELSE s
             n == IF body = <<>> THEN -1
                  ELSE Accumulate(body, 0, IF neg THEN MaxInt + 1 ELSE MaxInt)
         IN IF n < 0 THEN Err(0) ELSE Ok(IF neg THEN 0 - n ELSE n)

\* json.Unmarshal(b, &x) for an integer x and a b that is no string: null
\* leaves x zero, a number literal must be an integer of the type, anything
\* else is an error
UnmarshalInt(b, signed) ==
    CASE b.t = "null" -> Ok(0)
      [] b.t = "num" -> IF signed THEN ParseInt(b.s) ELSE ParseUint(b.s)
      [] OTHER -> Err(0)

\* u64OrStr.UnmarshalJSON
u64OrStr(b) ==
    IF FirstByte(b) # "\"" THEN UnmarshalInt(b, FALSE) ELSE ParseUint(b.s)

\* i64OrStr.UnmarshalJSON
i64OrStr(b) ==
    IF FirstByte(b) # "\"" THEN UnmarshalInt(b, TRUE) ELSE ParseInt(b.s)

\* (mutant) the identifier is looked up under the key "cid"
CidKeyNamed == <<"c", "i", "d">>

\* the reserved key of the object form
CidKey == <<"/">>

\* m[key] of the map json.Unmarshal builds from an object: the value of the
\* last member with that key, or null when there is none
Member(b, key) ==
    LET at == {k \in 1..Len(b.m) : b.m[k].k = key} IN
    IF at = {} THEN [found |-> FALSE, v |-> JNull]
    ELSE [found |-> TRUE, v |-> b.m[CHOOSE k \in at : \A j \in at : j <= k].v]

\* cidOrObj.UnmarshalJSON: a plain string, or an object with a string under
\* the reserved key
cidOrObj(b) ==
    IF FirstByte(b) = "\"" THEN Ok(b.s)
    ELSE IF b.t \notin {"obj", "null"} THEN Err(<<>>)
    ELSE LET e == Member(b, CidKey) IN
         IF e.found /\ e.v.t = "str" THEN Ok(e.v.s) ELSE Err(<<>>)

(************************* the dump file ***********************************)
\* decoded filecoinClaim records a dump may hold
RecA == [Provider |-> 1001, Client |-> 7, Data |-> <<"a">>, Size |-> 32,
         TermMin |-> 1, TermMax |-> 9, TermStart |-> 5, Sector |-> 3]
RecB == [Provider |-> 1002, Client |-> 8, Data |-> <<"b">>, Size |-> 64,
         TermMin |-> 2, TermMax |-> 8, TermStart |-> 6, Sector |-> 4]
Recs == {RecA, RecB}

\* rpcAllClaims.Result: claim id -> record (the key "n" scans to the id n)
\* (a dump whose first record is RecB is one of these with the two providers
\* renamed)
Dumps == {d \in [1..MaxClaims -> Recs] : d[1] = RecA}

\* the uniqueness tuple (provider_id, data_cid, sector, term_start) of a claim
Tuple(c) == <<c.provider_id, c.data_cid, c.sector, c.term_start>>

\* (mutant) term_start is given the wall-clock time of the run
ToDBClaimNow(claimID, c, now) ==
    [claim_id |-> claimID,
     provider_id |-> ToInt64(c.Provider),
     client_id |-> ToInt64(c.Client),
     data_cid |-> c.Data,
     size |-> c.Size,
     term_min |-> c.TermMin,
     term_max |-> c.TermMax,
     term_start |-> now,
     sector |-> c.Sector,
     miner_addr |-> MinerAddr(c.Provider),
     updated_at |-> now]

\* one element of out in loadClaimsFromFileFiltered
ToDBClaim(claimID, c, now) ==
    [claim_id |-> claimID,
     provider_id |-> ToInt64(c.Provider),
     client_id |-> ToInt64(c.Client),
     data_cid |-> c.Data,
     size |-> c.Size,
     term_min |-> c.TermMin,
     term_max |-> c.TermMax,
     term_start |-> c.TermStart,
     sector |-> c.Sector,
     miner_addr |-> MinerAddr(c.Provider),
     updated_at |-> now]

\* the orders in which Go may range over the map rpc.Result, filtered
RECURSIVE Orders(_)
Orders(S) == IF S = {} THEN {<<>>}
             ELSE UNION {{<<x>> \o s : s \in Orders(S \ {x})} : x \in S}

\* (mutant) the filter keeps every record
KeepAll(c, active) == TRUE

\* keep only providers that currently have power
Keep(c, active) == c.Provider \in active

FilteredLists(dump, active, now) ==
    {[k \in 1..Len(o) |-> ToDBClaim(o[k], dump[o[k]], now)] :
        o \in Orders({id \in DOMAIN dump : Keep(dump[id], active)})}

(************************* the text of the dump ****************************)
\* the representations a dump file uses for its fields: every number a JSON
\* number and every content id a JSON string; every number a string of
\* digits and every content id an object {"/": s}; the first of these with
\* the content id of the last record an object without the reserved key; the
\* first of these with the sector of the last record a string that is no
\* number
Forms == {"number", "string", "nokey", "notdigits"}
BadForms == {"nokey", "notdigits"}

\* the JSON text of the record c
Encode(c, form, last) ==
    LET N(n) == IF form = "string" THEN JStr(Dec(n)) ELSE JNum(Dec(n)) IN
    [Provider |-> N(c.Provider), Client |-> N(c.Client),
     Data |-> CASE form = "string" -> JObj(<<[k |-> CidKey, v |-> JStr(c.Data)]>>)
                [] form = "nokey" /\ last ->
                       JObj(<<[k |-> <<"c">>, v |-> JStr(c.Data)]>>)
                [] OTHER -> JStr(c.Data),
     Size |-> N(c.Size), TermMin |-> N(c.TermMin), TermMax |-> N(c.TermMax),
     TermStart |-> N(c.TermStart),
     Sector |-> IF form = "notdigits" /\ last THEN JStr(<<"x">>) ELSE N(c.Sector)]

\* the member "result" of the complete file: claim id -> JSON text of the record
Document(dump, form) ==
    [id \in DOMAIN dump |->
        Encode(dump[id], form, \A other \in DOMAIN dump : other <= id)]

\* a filecoinClaim decoded from its JSON object, field by field through the
\* lenient decoders: the first error is the error of the record
DecodeRecord(w) ==
    LET provider == u64OrStr(w.Provider)
        client == u64OrStr(w.Client)
        data == cidOrObj(w.Data)
        size == i64OrStr(w.Size)
        termMin == i64OrStr(w.TermMin)
        termMax == i64OrStr(w.TermMax)
        termStart == i64OrStr(w.TermStart)
        sector == u64OrStr(w.Sector)
    IN IF provider.ok /\ client.ok /\ data.ok /\ size.ok /\ termMin.ok
          /\ termMax.ok /\ termStart.ok /\ sector.ok
       THEN Ok([Provider |-> provider.v, Client |-> client.v, Data |-> data.v,
                Size |-> size.v, TermMin |-> termMin.v, TermMax |-> termMax.v,
                TermStart |-> termStart.v, Sector |-> sector.v])
       ELSE Err(<<>>)

\* (mutant) a record that does not decode is left out of the result
DecodeSkipping(doc) ==
    Ok([id \in {k \in DOMAIN doc : DecodeRecord(doc[k]).ok} |->
            DecodeRecord(doc[id]).v])

RECURSIVE DecodeFrom(_, _, _)
\* the records of the document decoded one after the other from the k-th on:
\* the error of a record ends the decode
DecodeFrom(doc, k, result) ==
    IF k > Len(doc) THEN Ok(result)
    ELSE LET c == DecodeRecord(doc[k]) IN
         IF ~c.ok THEN Err(<<>>)
         ELSE DecodeFrom(doc, k + 1, Append(result, c.v))

\* dec.Decode(&rpc): the error of a record is the error of the document
Decode(doc) == DecodeFrom(doc, 1, <<>>)

(************************* chain node **************************************)
\* hasNonZeroPower: raw byte power > 0 or quality-adjusted power > 0
hasNonZeroPower(raw, qa) == raw > 0 \/ qa > 0

\* the set loadActiveProviders builds: miners with power whose lookups succeed
ActiveSet(raw, qa, bad) ==
    {m \in Miners : m \notin bad /\ hasNonZeroPower(raw[m], qa[m])}

\* what StateMinerPower returns for a miner: an error, a nil record, or a
\* record with its raw byte power and its quality-adjusted power
PowerErr == [err |-> TRUE, nil |-> FALSE, raw |-> 0, qa |-> 0]
PowerNil == [err |-> FALSE, nil |-> TRUE, raw |-> 0, qa |-> 0]
Power(raw, qa) == [err |-> FALSE, nil |-> FALSE, raw |-> raw, qa |-> qa]
PowerResults == {PowerErr, PowerNil, Power(0, 0), Power(1, 0), Power(0, 1)}

\* what StateLookupID and address.IDFromAddress make of a miner address: the
\* lookup fails, the address it returns is no id address, or the actor id
LookupResults(m) ==
    {[err |-> "lookup", id |-> 0], [err |-> "notid", id |-> 0],
     [err |-> "none", id |-> m]}

\* the chain as the node serves it: ChainHead and StateListMiners may fail;
\* head is the tipset ChainHead returns, latest the head of the chain by the
\* time the loop runs; the power table is per tipset
HeadTipset == "tsk"
LatestTipset == "later"
Chains ==
    {[fail |-> "none", head |-> HeadTipset, latest |-> LatestTipset,
      miners |-> <<1001, 1002>>, power |-> pw, lookup |-> lk] :
        pw \in {t \in [{HeadTipset, LatestTipset} -> [Miners -> PowerResults]] :
                   \A m \in Miners : t[LatestTipset][m] \in {Power(0, 0), Power(1, 0)}},
        lk \in {l \in [Miners -> UNION {LookupResults(m) : m \in Miners}] :
                   \A m \in Miners : l[m] \in LookupResults(m)}}
    \cup
    {[fail |-> f, head |-> HeadTipset, latest |-> LatestTipset,
      miners |-> <<1001, 1002>>,
      power |-> [t \in {HeadTipset, LatestTipset} |-> [m \in Miners |-> Power(1, 1)]],
      lookup |-> [m \in Miners |-> [err |-> "none", id |-> m]]] :
        f \in {"head", "miners"}}

\* (mutant) the power is read at the head the chain has by then
StateMinerPowerNow(chain, m, tsk) == chain.power[chain.latest][m]

\* api.StateMinerPower(ctx, m, tsk)
StateMinerPower(chain, m, tsk) == chain.power[tsk][m]

\* (mutant) the error of one actor is the error of the build
ActorFailedAborts(st) == [st EXCEPT !.err = TRUE]

\* a lookup of one actor failed: continue
ActorFailed(st) == st

RECURSIVE ActiveLoop(_, _, _, _)
\* the loop of loadActiveProviders over the listed miners, from the k-th on
ActiveLoop(chain, tsk, k, st) ==
    IF st.err \/ k > Len(chain.miners) THEN st
    ELSE LET m == chain.miners[k]
             mp == StateMinerPower(chain, m, tsk)
             idAddr == chain.lookup[m]
         IN IF mp.err THEN ActiveLoop(chain, tsk, k + 1, ActorFailed(st))
            ELSE IF mp.nil \/ ~hasNonZeroPower(mp.raw, mp.qa)
            THEN ActiveLoop(chain, tsk, k + 1, st)
            ELSE IF idAddr.err # "none"
            THEN ActiveLoop(chain, tsk, k + 1, ActorFailed(st))
            ELSE ActiveLoop(chain, tsk, k + 1,
                            [st EXCEPT !.active = @ \cup {idAddr.id}])

\* loadActiveProviders: the head, the miners listed at it, the loop
loadActiveProviders(chain) ==
    IF chain.fail \in {"head", "miners"}
    THEN [err |-> TRUE, active |-> {}]
    ELSE ActiveLoop(chain, chain.head, 1, [err |-> FALSE, active |-> {}])

(************************* state *******************************************)
VARIABLES
    store,       \* documents of the claims collection
    uniqIndex,   \* the unique index uniq_claim_tuple exists
    everStored,  \* history: every document ever persisted
    dump,        \* content of the complete dump file
    fileExists,  \* the dump file of the day is on disk
    fileSize,    \* its current size
    written,     \* history: the producer has started the file
    clock,       \* time.Now()
    cfgBulkSize, \* cfg.BulkSize
    ext,         \* external writer: its upsert in progress
    pc,          \* per instance: position in runFromTodayDumpOnce
    runs,        \* per instance: number of runs started
    loc,         \* per instance: local variables of the run
    hist,        \* per instance: history of the current and previous run
    cfgRunEveryHours, \* cfg.RunEveryHours
    sched,       \* per instance: main's scheduler, its ticker and its context
    form,        \* the representations the text of the dump file uses
    call         \* a function called on its own: its name, inputs and result

vars == <<store, uniqIndex, everStored, dump, fileExists, fileSize, written,
          clock, cfgBulkSize, ext, pc, runs, loc, hist, cfgRunEveryHours,
          sched, form, call>>

envVars == <<dump, uniqIndex, cfgBulkSize, cfgRunEveryHours, form, call>>
fileVars == <<fileExists, fileSize, written>>
storeVars == <<store, everStored>>

NoLoc == [prevSize |-> 0, retry |-> 0, active |-> {}, claimsList |-> <<>>,
          existingKeys |-> {}, idx |-> 1, batch |-> <<>>, inserted |-> 0,
          prepared |-> 0, now |-> 0, bulkSize |-> 0, final |-> FALSE,
          todo |-> {}, cur |-> 0, curMatched |-> FALSE, upserted |-> 0,
          matched |-> 0, opErr |-> FALSE]

\* history of a run: how it ended; up to its key scan, whether some size poll
\* and whether every size poll saw a size other than the observation before
\* it, and the number of its size polls; whether its first os.Stat found no
\* file; whether loadActiveProviders returned an error; whether it opened the
\* file; whether the decode of the file failed; its active set; its batches
\* so far
NoHist == [result |-> "none", any |-> FALSE, all |-> FALSE, polls |-> 0,
           absent |-> FALSE, filterErr |-> FALSE, opened |-> FALSE,
           parseErr |-> FALSE,
           active |-> {}, batches |-> <<>>, preSubmit |-> {}, added |-> 0,
           clean |-> TRUE]

\* what is kept of the previous run
Summary(h) == [result |-> h.result, active |-> h.active, clean |-> h.clean]

\* the scheduler of main before the first run: no ticker yet, context live
\* (asleep is history: the run was in a stability-poll sleep when the
\* interrupt came; so is inflight: the run and the batch of the bulk write
\* that was in flight when the interrupt came)
\* no function is called on its own
NoCall == [fn |-> "none"]

NoSched == [pos |-> "boot", pending |-> 0, elapsed |-> 0, due |-> 0,
            cancelled |-> FALSE, asleep |-> FALSE, inflight |-> <<>>]

Init ==
    /\ store = {}
    /\ uniqIndex \in BOOLEAN
    /\ everStored = {}
    /\ dump \in Dumps
    /\ fileExists = FALSE
    /\ fileSize = 0
    /\ written = FALSE
    /\ clock = 0
    /\ cfgBulkSize \in BulkSizes
    /\ ext = [pc |-> "idle", doc |-> <<>>, matched |-> FALSE, count |-> 0]
    /\ pc = [i \in Insts |-> "idle"]
    /\ runs = [i \in Insts |-> 0]
    /\ loc = [i \in Insts |-> NoLoc]
    /\ hist = [i \in Insts |-> [cur |-> NoHist, prev |-> Summary(NoHist)]]
    /\ cfgRunEveryHours = 1
    /\ sched = [i \in Insts |-> NoSched]
    /\ form = "number"
    /\ call = NoCall

(************************* dump producer ***********************************)
\* the export job creates the file of the day
Create ==
    /\ ~written
    /\ written' = TRUE
    /\ fileExists' = TRUE
    /\ fileSize' = 0
    /\ UNCHANGED <<storeVars, envVars, sched, clock, ext, pc, runs, loc, hist>>

\* the export job appends to the file until it is complete
Grow ==
    /\ fileExists
    /\ fileSize < MaxSize
    /\ fileSize' = fileSize + 1
    /\ UNCHANGED <<storeVars, envVars, sched, fileExists, written, clock, ext, pc,
                   runs, loc, hist>>

(************************* one run *****************************************)
\* end of a run: runFromTodayDumpOnce returns
End(i, how) ==
    /\ pc' = [pc EXCEPT ![i] = "idle"]
    /\ loc' = [loc EXCEPT ![i] = NoLoc]
    /\ hist' = [hist EXCEPT ![i].cur.result = how,
                            ![i].cur.batches = <<>>,
                            ![i].cur.preSubmit = {}]

\* runFromTodayDumpOnce returned a non-nil error for this way of ending
ReturnsErr(how) ==
    how \in {"err_stat", "err_active", "err_parse", "err_scan", "err_insert"}

\* entry of runFromTodayDumpOnce
Begin(i) ==
    /\ runs' = [runs EXCEPT ![i] = @ + 1]
    /\ clock' = clock + 1
    /\ pc' = [pc EXCEPT ![i] = "stat"]
    /\ loc' = [loc EXCEPT ![i] = NoLoc]
    /\ hist' = [hist EXCEPT ![i] = [cur |-> [NoHist EXCEPT !.result = "running"],
                                    prev |-> Summary(hist[i].cur)]]

\* the scheduler calls runFromTodayDumpOnce
Start(i, limit) ==
    /\ pc[i] = "idle"
    /\ runs[i] < limit
    /\ Begin(i)
    /\ UNCHANGED <<storeVars, envVars, sched, fileVars, ext>>

StartRun(i) == Start(i, MaxRuns)

\* (mutant) a missing file is not an early return
StatMissingGoesOn == "active"

\* where the run goes when os.Stat reports that the file does not exist:
\* return nil
StatMissing == "idle"

\* 1) os.Stat(filePath)
Stat(i) ==
    /\ pc[i] = "stat"
    /\ \/ /\ ~fileExists
          /\ pc' = [pc EXCEPT ![i] = StatMissing]
          /\ loc' = loc
          /\ hist' = [hist EXCEPT ![i].cur.absent = TRUE,
                                  ![i].cur.result =
                                      IF StatMissing = "idle" THEN "notfound" ELSE @]
       \/ /\ fileExists
          /\ loc' = [loc EXCEPT ![i].prevSize = fileSize]
          /\ pc' = [pc EXCEPT ![i] = "poll"]
          /\ hist' = hist
    /\ UNCHANGED <<storeVars, envVars, sched, fileVars, clock, ext, runs>>

\* (mutant) a file that only grew counts as stable
SizeStableGrew(size, prevSize) == size >= prevSize

\* the stability test: info2.Size() == prevSize
SizeStable(size, prevSize) == size = prevSize

\* history: the polls of the run so far, this one included
Polled(i, h) ==
    LET changed == fileSize # loc[i].prevSize IN
    [h EXCEPT !.any = @ \/ changed,
              !.all = IF loc[i].retry = 0 THEN changed ELSE @ /\ changed,
              !.polls = @ + 1]

\* (mutant) the loop gives up one poll early
MoreRetriesShort(retry) == retry + 1 < stableCheckRetries - 1

\* the loop condition after the poll numbered retry: i+1 < stableCheckRetries
MoreRetries(retry) == retry + 1 < stableCheckRetries

\* 2) one iteration of the stability loop: sleep, os.Stat, compare
Poll(i) ==
    /\ pc[i] = "poll"
    /\ \/ /\ ~fileExists
          /\ End(i, "err_stat")
       \/ /\ fileExists
          /\ SizeStable(fileSize, loc[i].prevSize)
          /\ pc' = [pc EXCEPT ![i] = "active"]
          /\ loc' = [loc EXCEPT ![i].prevSize = 0, ![i].retry = 0]
          /\ hist' = [hist EXCEPT ![i].cur = Polled(i, @)]
       \/ /\ fileExists
          /\ ~SizeStable(fileSize, loc[i].prevSize)
          /\ IF MoreRetries(loc[i].retry)
             THEN /\ pc' = pc
                  /\ loc' = [loc EXCEPT ![i].prevSize = fileSize, ![i].retry = @ + 1]
                  /\ hist' = [hist EXCEPT ![i].cur = Polled(i, @)]
             ELSE /\ pc' = [pc EXCEPT ![i] = "idle"]
                  /\ loc' = [loc EXCEPT ![i] = NoLoc]
                  /\ hist' = [hist EXCEPT ![i].cur =
                                [Polled(i, @) EXCEPT !.result = "unstable"]]
    /\ UNCHANGED <<storeVars, envVars, sched, fileVars, clock, ext, runs>>

\* (mutant) the error of loadActiveProviders is dropped and the run goes on
\* with the empty set
ActiveFailedGoesOn == "parse"

\* where the run goes when loadActiveProviders returns an error (ChainHead or
\* StateListMiners failed): return the error
ActiveFailed == "idle"

\* (mutant) an empty active set is not an early return
NoActiveGoesOn == "parse"

\* where the run goes when loadActiveProviders returns an empty set without
\* an error: return nil
NoActive == "idle"

\* 3) loadActiveProviders: chain head, miner list, then per miner its power
\* and its id; a miner whose lookup fails is skipped
LoadActive(i) ==
    /\ pc[i] = "active"
    /\ \/ /\ pc' = [pc EXCEPT ![i] = ActiveFailed]
          /\ loc' = [loc EXCEPT ![i] = IF ActiveFailed = "idle" THEN NoLoc ELSE @]
          /\ hist' = [hist EXCEPT ![i].cur.filterErr = TRUE,
                                  ![i].cur.result =
                                      IF ActiveFailed = "idle" THEN "err_active" ELSE @]
       \/ \E raw \in [Miners -> 0..1], qa \in [Miners -> 0..1], bad \in SUBSET Miners :
            LET a == ActiveSet(raw, qa, bad) IN
            IF a = {} /\ NoActive = "idle"
            THEN End(i, "noactive")
            ELSE /\ loc' = [loc EXCEPT ![i].active = a]
                 /\ pc' = [pc EXCEPT ![i] = IF a = {} THEN NoActive ELSE "parse"]
                 /\ hist' = [hist EXCEPT ![i].cur.active = a]
    /\ UNCHANGED <<storeVars, envVars, sched, fileVars, clock, ext, runs>>

\* (mutant) a decode error is not returned: the run goes on with the records
\* decoded before it
ParseFailedGoesOn == "scan"

\* where the run goes when dec.Decode returns an error: return the error
ParseFailed == "idle"

\* what dec.Decode makes of the file, doc being the member "result" of the
\* complete file: a file the producer has not completed is a truncated
\* document, which is a syntax error
DecodeFile(doc) == IF fileSize < MaxSize THEN Err(<<>>) ELSE Decode(doc)

\* 4) loadClaimsFromFileFiltered: open, decode the whole document, filter
Parse(i) ==
    /\ pc[i] = "parse"
    /\ \/ /\ ~fileExists
          /\ End(i, "err_parse")
       \/ /\ fileExists
          /\ \E doc \in {Document(dump, form)} : \E rpc \in {DecodeFile(doc)} :
                IF ~rpc.ok
                THEN /\ pc' = [pc EXCEPT ![i] = ParseFailed]
                     /\ hist' = [hist EXCEPT ![i].cur.result =
                                      IF ParseFailed = "idle" THEN "err_parse" ELSE @,
                                             ![i].cur.opened = TRUE,
                                             ![i].cur.parseErr = TRUE]
                     /\ loc' = [loc EXCEPT ![i] =
                                      IF ParseFailed = "idle" THEN NoLoc ELSE @]
                ELSE /\ \E l \in FilteredLists(rpc.v, loc[i].active, clock) :
                           loc' = [loc EXCEPT ![i].claimsList = l]
                     /\ pc' = [pc EXCEPT ![i] = "scan"]
                     /\ hist' = [hist EXCEPT ![i].cur.opened = TRUE]
    /\ UNCHANGED <<storeVars, envVars, sched, fileVars, clock, ext, runs>>

\* the keys loadAllClaimKeysFromDB builds from the four projected fields
ScanKeys(docs) ==
    {claimKey(d.doc.provider_id, d.doc.data_cid, d.doc.sector, d.doc.term_start) :
        d \in docs}

\* (mutant) every candidate is staged
StagedAlways(c, existingKeys) == TRUE

\* the diff: a candidate is staged when its key is not in the index
Staged(c, existingKeys) ==
    claimKey(c.provider_id, c.data_cid, c.sector, c.term_start) \notin existingKeys

\* (mutant) the batch is flushed once it holds more than bulkSize operations
BatchFullOver(batch, bulkSize) == Len(batch) > bulkSize

\* the batch is flushed inside the loop once it holds bulkSize operations
BatchFull(batch, bulkSize) == Len(batch) >= bulkSize

RECURSIVE DiffLoop(_)
\* the loop of insertDiffClaims from the state l up to its next call of
\* flushBatch: inside the loop on a full batch, or after the loop (final)
DiffLoop(l) ==
    IF l.idx > Len(l.claimsList)
    THEN [l EXCEPT !.final = TRUE]
    ELSE LET c == l.claimsList[l.idx] IN
         IF ~Staged(c, l.existingKeys)
         THEN DiffLoop([l EXCEPT !.idx = @ + 1])
         ELSE LET m == [l EXCEPT !.idx = @ + 1,
                                 !.batch = Append(@, [c EXCEPT !.updated_at = l.now]),
                                 !.prepared = @ + 1]
              IN IF BatchFull(m.batch, m.bulkSize) THEN m ELSE DiffLoop(m)

\* bulkSize <= 0 is replaced by the default
EffectiveBulk(n) == IF n <= 0 THEN DefaultBulkSize ELSE n

\* 5) loadAllClaimKeysFromDB, then insertDiffClaims up to its first flushBatch
Scan(i) ==
    /\ pc[i] = "scan"
    /\ \/ End(i, "err_scan")
       \/ /\ LET l == [loc[i] EXCEPT !.existingKeys = ScanKeys(store),
                                       !.bulkSize = EffectiveBulk(cfgBulkSize),
                                       !.now = clock]
             IN IF Len(l.claimsList) = 0
                THEN /\ loc' = [loc EXCEPT ![i] = l]
                     /\ pc' = [pc EXCEPT ![i] = "remove"]
                ELSE /\ loc' = [loc EXCEPT ![i] = DiffLoop(l)]
                     /\ pc' = [pc EXCEPT ![i] = "flush"]
          /\ hist' = [hist EXCEPT ![i].cur.any = FALSE, ![i].cur.all = FALSE,
                                  ![i].cur.polls = 0]
    /\ UNCHANGED <<storeVars, envVars, sched, fileVars, clock, ext, runs>>

\* (mutant) the cleanup follows the first flush
AfterFlushRemoves(final) == "remove"

\* where insertDiffClaims goes on after flushBatch returned: the final flush
\* is followed by the cleanup, a flush inside the loop by the next flush
AfterFlush(final) == IF final THEN "remove" ELSE "flush"

\* the locals after flushBatch returned nil: the loop goes on to its next flush
Resume(l) == IF l.final THEN l ELSE DiffLoop(l)

\* flushBatch: nothing to do for an empty batch, else submit the bulk write
Flush(i) ==
    /\ pc[i] = "flush"
    /\ IF loc[i].batch = <<>>
       THEN /\ pc' = [pc EXCEPT ![i] = AfterFlush(loc[i].final)]
            /\ loc' = [loc EXCEPT ![i] = Resume(@)]
            /\ hist' = hist
       ELSE /\ pc' = [pc EXCEPT ![i] = "bulk"]
            /\ loc' = [loc EXCEPT ![i].todo = 1..Len(loc[i].batch),
                                  ![i].cur = 0,
                                  ![i].upserted = 0,
                                  ![i].matched = 0,
                                  ![i].opErr = FALSE]
            /\ hist' = [hist EXCEPT ![i].cur.preSubmit = {Tuple(d.doc) : d \in store}]
    /\ UNCHANGED <<storeVars, envVars, sched, fileVars, clock, ext, runs>>

(************************* the collection ***********************************)
\* (mutant) the filter names a field no document has, so it matches nothing
MatchesNothing(d, c) == FALSE

\* the filter of the update model: equality on the four tuple fields
Matches(d, c) == Tuple(d.doc) = Tuple(c)

\* (mutant) the query phase of an upsert never finds a match
HitNever(c) == FALSE

\* some document matches the filter built from c
Hit(c) == \E d \in store : Matches(d, c)

\* inserting c would violate the unique index uniq_claim_tuple
Conflicts(c) == \E d \in store : Tuple(d.doc) = Tuple(c)

\* (mutant) the update clause is $set: a match is overwritten with c
OnMatchSet(d, c) == [d EXCEPT !.doc = c]

\* what an update holding only $setOnInsert leaves of a document it matched
OnMatch(d, c) == d

\* the document an upsert inserts for c: the filter fields and $setOnInsert c.
\* Its writer (0 is the external writer), run and batch are its history and
\* stand for its _id: no writer inserts one claim twice in one batch.
NewDoc(c, who, run, b) == [doc |-> c, by |-> who, run |-> run, batch |-> b]

\* the update finds a match: one matching document is updated
Update(c) ==
    /\ \E d \in store :
          /\ Matches(d, c)
          /\ store' = (store \ {d}) \cup {OnMatch(d, c)}
    /\ everStored' = everStored \cup store'

\* the update finds no match: upsert
Insert(c, who, run, b) ==
    /\ store' = store \cup {NewDoc(c, who, run, b)}
    /\ everStored' = everStored \cup store'

(************************* the bulk write ***********************************)
\* ordinal of the batch in flight
BatchNo(i) == Len(hist[i].cur.batches) + 1

\* the server takes up one operation of the unordered batch: under the
\* unique index it runs as one atomic insert-if-absent (a filter that misses
\* a document the index holds ends in a duplicate-key error); without the
\* index it runs its query phase.
BulkOp(i) ==
    /\ pc[i] = "bulk"
    /\ loc[i].cur = 0
    /\ \E j \in loc[i].todo :
         LET c == loc[i].batch[j] IN
         IF uniqIndex
         THEN IF Hit(c)
              THEN /\ Update(c)
                   /\ loc' = [loc EXCEPT ![i].todo = @ \ {j}, ![i].matched = @ + 1]
                   /\ hist' = hist
              ELSE IF Conflicts(c)
              THEN /\ loc' = [loc EXCEPT ![i].todo = @ \ {j}, ![i].opErr = TRUE]
                   /\ hist' = [hist EXCEPT ![i].cur.clean = FALSE]
                   /\ UNCHANGED storeVars
              ELSE /\ Insert(c, i, runs[i], BatchNo(i))
                   /\ loc' = [loc EXCEPT ![i].todo = @ \ {j}, ![i].upserted = @ + 1]
                   /\ hist' = hist
         ELSE /\ loc' = [loc EXCEPT ![i].cur = j, ![i].curMatched = Hit(c)]
              /\ UNCHANGED <<storeVars, hist>>
    /\ UNCHANGED <<envVars, sched, fileVars, clock, ext, pc, runs>>

\* one operation of the batch fails (a write error, or it never reaches the
\* server): it is not applied and BulkWrite will report an error
BulkOpFail(i) ==
    /\ pc[i] = "bulk"
    /\ loc[i].cur = 0
    /\ \E j \in loc[i].todo :
         loc' = [loc EXCEPT ![i].todo = @ \ {j}, ![i].opErr = TRUE]
    /\ hist' = [hist EXCEPT ![i].cur.clean = FALSE]
    /\ UNCHANGED <<storeVars, envVars, sched, fileVars, clock, ext, pc, runs>>

\* without the unique index: the write phase of the operation taken up
BulkOpWrite(i) ==
    /\ pc[i] = "bulk"
    /\ loc[i].cur # 0
    /\ LET c == loc[i].batch[loc[i].cur] IN
       IF loc[i].curMatched
       THEN /\ Update(c)
            /\ loc' = [loc EXCEPT ![i].todo = @ \ {loc[i].cur}, ![i].cur = 0,
                                  ![i].matched = @ + 1]
       ELSE /\ Insert(c, i, runs[i], BatchNo(i))
            /\ loc' = [loc EXCEPT ![i].todo = @ \ {loc[i].cur}, ![i].cur = 0,
                                  ![i].upserted = @ + 1]
    /\ UNCHANGED <<envVars, sched, fileVars, clock, ext, pc, runs, hist>>

\* (mutant) every matched or upserted operation is counted as an insert
CreditMatched(err, res) == IF res.nil THEN 0 ELSE res.UpsertedCount + res.MatchedCount

\* (mutant) the result of a batch that reported an error is dropped
CreditNoErr(err, res) == IF err \/ res.nil THEN 0 ELSE res.UpsertedCount

\* inserted += res.UpsertedCount, when a result came back, error or not
Credit(err, res) == IF res.nil THEN 0 ELSE res.UpsertedCount

\* (mutant) flushBatch returns the error of BulkWrite
flushBatchFailsOnErr(err) == err

\* flushBatch returns nil whatever BulkWrite reported
flushBatchFails(err) == FALSE

\* flushBatch after BulkWrite returned err and res: the batch is reset, the
\* result credited, and insertDiffClaims goes on to its next flush
Flushed(i, err, res) ==
    LET entry == [tuples |-> {Tuple(loc[i].batch[k]) : k \in 1..Len(loc[i].batch)},
                  n |-> Len(loc[i].batch), err |-> err,
                  reported |-> IF res.nil THEN 0 ELSE res.UpsertedCount,
                  credited |-> Credit(err, res)]
    IN
    IF flushBatchFails(err)
    THEN /\ pc' = [pc EXCEPT ![i] = "idle"]
         /\ loc' = [loc EXCEPT ![i] = NoLoc]
         /\ hist' = [hist EXCEPT ![i].cur.batches = Append(@, entry),
                                 ![i].cur.clean = FALSE,
                                 ![i].cur.added = loc[i].inserted + Credit(err, res),
                                 ![i].cur.result = "err_insert"]
    ELSE /\ pc' = [pc EXCEPT ![i] = AfterFlush(loc[i].final)]
         /\ loc' = [loc EXCEPT ![i] =
                      Resume([@ EXCEPT !.inserted = @ + Credit(err, res),
                                       !.batch = <<>>,
                                       !.upserted = 0,
                                       !.matched = 0,
                                       !.opErr = FALSE])]
         /\ hist' = [hist EXCEPT ![i].cur.batches = Append(@, entry),
                                 ![i].cur.clean = @ /\ ~err]

\* BulkWrite returns after the server went through the batch.  With every
\* operation applied there is no error and the result counts every upsert
\* made; with a failed operation there is an error, and the result is missing
\* or counts some of the upserts made.
BulkEnd(i) ==
    /\ pc[i] = "bulk"
    /\ loc[i].cur = 0
    /\ loc[i].todo = {}
    /\ IF ~loc[i].opErr
       THEN Flushed(i, FALSE, [nil |-> FALSE, UpsertedCount |-> loc[i].upserted,
                               MatchedCount |-> loc[i].matched])
       ELSE \E isNil \in BOOLEAN, rep \in 0..loc[i].upserted :
               /\ isNil => rep = 0
               /\ Flushed(i, TRUE, [nil |-> isNil, UpsertedCount |-> rep,
                                    MatchedCount |-> loc[i].matched])
    /\ UNCHANGED <<storeVars, envVars, sched, fileVars, clock, ext, runs>>

\* BulkWrite returns an error although the server applied every operation
\* (the reply is lost): the result is missing or counts some of the upserts
BulkLost(i) ==
    /\ pc[i] = "bulk"
    /\ loc[i].cur = 0
    /\ loc[i].todo = {}
    /\ ~loc[i].opErr
    /\ \E isNil \in BOOLEAN, rep \in 0..loc[i].upserted :
          /\ isNil => rep = 0
          /\ Flushed(i, TRUE, [nil |-> isNil, UpsertedCount |-> rep,
                               MatchedCount |-> loc[i].matched])
    /\ UNCHANGED <<storeVars, envVars, sched, fileVars, clock, ext, runs>>

\* (mutant) the error of os.Remove is returned
RemoveFailedIsErr == "err_remove"

\* how the run ends when os.Remove fails: the failure is logged, return nil
RemoveFailed == "ok"

\* 7) os.Remove(filePath); a failure is logged and the run ends without error
Remove(i) ==
    /\ pc[i] = "remove"
    /\ \E removed \in BOOLEAN :
          /\ removed => fileExists
          /\ fileExists' = (fileExists /\ ~removed)
          /\ hist' = [hist EXCEPT ![i].cur.result =
                                      IF removed THEN "ok" ELSE RemoveFailed,
                                  ![i].cur.added = loc[i].inserted,
                                  ![i].cur.batches = <<>>,
                                  ![i].cur.preSubmit = {}]
    /\ pc' = [pc EXCEPT ![i] = "idle"]
    /\ loc' = [loc EXCEPT ![i] = NoLoc]
    /\ UNCHANGED <<storeVars, envVars, sched, fileSize, written, clock, ext, runs>>

(************************* external writer **********************************)
\* the claims the external writer upserts: a tuple every dump holds
ExtRecs == {RecA}

\* another writer upserts a claim by its uniqueness tuple
ExtUpsert ==
    /\ ext.pc = "idle"
    /\ ext.count < MaxExt
    /\ \E r \in ExtRecs :
         LET c == ToDBClaim(0, r, 0) IN
         IF uniqIndex
         THEN /\ IF Conflicts(c) THEN UNCHANGED storeVars ELSE Insert(c, 0, 0, 0)
              /\ ext' = [ext EXCEPT !.count = @ + 1]
         ELSE /\ ext' = [ext EXCEPT !.pc = "queried", !.doc = c,
                                    !.matched = Conflicts(c)]
              /\ UNCHANGED storeVars
    /\ UNCHANGED <<envVars, sched, fileVars, clock, pc, runs, loc, hist>>

\* without the unique index: the write phase of its upsert
ExtWrite ==
    /\ ext.pc = "queried"
    /\ IF ext.matched THEN UNCHANGED storeVars ELSE Insert(ext.doc, 0, 0, 0)
    /\ ext' = [ext EXCEPT !.pc = "idle", !.doc = <<>>, !.matched = FALSE,
                          !.count = @ + 1]
    /\ UNCHANGED <<envVars, sched, fileVars, clock, pc, runs, loc, hist>>

Next ==
    \/ Create
    \/ Grow
    \/ \E i \in {1} : StartRun(i) \/ Stat(i) \/ Poll(i) \/ LoadActive(i) \/ Parse(i)
                          \/ Scan(i) \/ Flush(i) \/ BulkOp(i) \/ BulkOpFail(i)
                          \/ BulkOpWrite(i) \/ BulkEnd(i) \/ BulkLost(i)
                          \/ Remove(i)
    \/ ExtUpsert
    \/ ExtWrite

Spec == Init /\ [][Next]_vars

\* two instances of the pipeline over the same dump file and the same
\* collection, with no lock between them; the producer has completed the file
InitConc ==
    /\ store = {}
    /\ uniqIndex \in BOOLEAN
    /\ everStored = {}
    /\ dump \in Dumps
    /\ fileExists = TRUE
    /\ fileSize = MaxSize
    /\ written = TRUE
    /\ clock = 0
    /\ cfgBulkSize \in BulkSizes
    /\ ext = [pc |-> "idle", doc |-> <<>>, matched |-> FALSE, count |-> 0]
    /\ pc = [i \in Insts |-> "idle"]
    /\ runs = [i \in Insts |-> 0]
    /\ loc = [i \in Insts |-> NoLoc]
    /\ hist = [i \in Insts |-> [cur |-> NoHist, prev |-> Summary(NoHist)]]
    /\ cfgRunEveryHours = 1
    /\ sched = [i \in Insts |-> NoSched]
    /\ form = "number"
    /\ call = NoCall

StartConc(i) == Start(i, MaxConcRuns)

NextConc ==
    \E i \in Insts : StartConc(i) \/ Stat(i) \/ Poll(i) \/ LoadActive(i) \/ Parse(i)
                       \/ Scan(i) \/ Flush(i) \/ BulkOp(i)
                       \/ BulkOpWrite(i) \/ BulkEnd(i) \/ Remove(i)

SpecConc == InitConc /\ [][NextConc]_vars

(************************* the scheduler of main ****************************)
\* values of RUN_EVERY_HOURS
RunEveryHoursSet == {0, 2}

\* (mutant) a non-positive interval is replaced by two hours
IntervalTwo(h) == IF h <= 0 THEN 2 ELSE h

\* the period of the ticker in hours: interval <= 0 is replaced by 1
Interval(h) == IF h <= 0 THEN 1 ELSE h

\* (mutant) the error of a run is logged with log.Fatalw
FatalOnErr(err) == err

\* the error of a run is logged with log.Errorw, which does not exit
Fatal(err) == FALSE

\* where main is once the run it called has returned and its error has been
\* logged: at the select, which returns at once when the context is cancelled
\* and no tick is in the channel
AfterRun(i, how) ==
    IF Fatal(ReturnsErr(how)) THEN "exit"
    ELSE IF sched[i].cancelled /\ sched[i].pending = 0 THEN "exit"
    ELSE "loop"

\* (mutant) the tick handler starts the run in a goroutine of its own
InCallAsync == "loop"

\* where main is while the run of a tick is in progress: inside the call
InCall == "run"

\* (mutant) the channel of the ticker queues every tick
DeliverQueued(pending) == pending + 1

\* the channel of the ticker holds one tick: a tick that finds it full is
\* dropped
Deliver(pending) == 1

\* "Run once immediately": the first call, before the ticker exists
FirstRun(i) ==
    /\ sched[i].pos = "boot"
    /\ Begin(i)
    /\ sched' = [sched EXCEPT ![i].pos = "first"]
    /\ UNCHANGED <<storeVars, envVars, fileVars, ext>>

\* the first run has returned: its error is logged, time.NewTicker
NewTicker(i) ==
    /\ sched[i].pos = "first"
    /\ pc[i] = "idle"
    /\ sched' = [sched EXCEPT ![i].pos = AfterRun(i, hist[i].cur.result),
                              ![i].elapsed = 0,
                              ![i].due = 0]
    /\ UNCHANGED <<storeVars, envVars, fileVars, clock, ext, pc, runs, loc, hist>>

\* the run of a tick has returned: its error is logged, back to the select
Return(i) ==
    /\ sched[i].pos = "run"
    /\ pc[i] = "idle"
    /\ sched' = [sched EXCEPT ![i].pos = AfterRun(i, hist[i].cur.result)]
    /\ UNCHANGED <<storeVars, envVars, fileVars, clock, ext, pc, runs, loc, hist>>

\* an hour passes on the ticker; at the end of a period a tick falls due and
\* is put in the channel.  due counts the ticks since the last call of a run.
Hour(i) ==
    /\ sched[i].pos \in {"loop", "run"}
    /\ sched[i].due < MaxDue
    /\ IF sched[i].elapsed + 1 >= Interval(cfgRunEveryHours)
       THEN sched' = [sched EXCEPT ![i].elapsed = 0,
                                   ![i].pending = Deliver(@),
                                   ![i].due = @ + 1]
       ELSE sched' = [sched EXCEPT ![i].elapsed = @ + 1]
    /\ UNCHANGED <<storeVars, envVars, fileVars, clock, ext, pc, runs, loc, hist>>

\* select takes case <-ticker.C and calls runFromTodayDumpOnce
SelectTick(i) ==
    /\ sched[i].pos = "loop"
    /\ sched[i].pending > 0
    /\ runs[i] < MaxSchedRuns
    /\ Begin(i)
    /\ sched' = [sched EXCEPT ![i].pos = InCall,
                              ![i].pending = @ - 1,
                              ![i].due = 0]
    /\ UNCHANGED <<storeVars, envVars, fileVars, ext>>

\* select takes case <-ctx.Done(): main returns.  With a tick in the channel
\* as well, select takes either case.
SelectDone(i) ==
    /\ sched[i].pos = "loop"
    /\ sched[i].cancelled
    /\ sched' = [sched EXCEPT ![i].pos = "exit"]
    /\ UNCHANGED <<storeVars, envVars, fileVars, clock, ext, pc, runs, loc, hist>>

\* os.Interrupt: the context of signal.NotifyContext is cancelled.  A select
\* parked with no tick in the channel is woken by ctx.Done() and main returns.
Shutdown(i) ==
    /\ ~sched[i].cancelled
    /\ sched' = [sched EXCEPT ![i].cancelled = TRUE,
                              ![i].asleep = pc[i] = "poll",
                              ![i].inflight = IF pc[i] = "bulk"
                                              THEN <<runs[i], BatchNo(i)>> ELSE <<>>,
                              ![i].pos = IF @ = "loop" /\ sched[i].pending = 0
                                         THEN "exit" ELSE @]
    /\ UNCHANGED <<storeVars, envVars, fileVars, clock, ext, pc, runs, loc, hist>>

\* coll.BulkWrite(ctx, ...) is given the context of signal.NotifyContext: once
\* the context is cancelled the driver gives up the write in flight and
\* BulkWrite returns the error of the context.  The operations the server had
\* not taken up are not applied; the result is missing or counts some of the
\* upserts made.
BulkCtxDone(i) ==
    /\ pc[i] = "bulk"
    /\ sched[i].cancelled
    /\ loc[i].cur = 0
    /\ loc[i].todo # {}
    /\ \E isNil \in BOOLEAN, rep \in 0..loc[i].upserted :
          /\ isNil => rep = 0
          /\ Flushed(i, TRUE, [nil |-> isNil, UpsertedCount |-> rep,
                               MatchedCount |-> loc[i].matched])
    /\ UNCHANGED <<storeVars, envVars, sched, fileVars, clock, ext, runs>>

\* one process from the end of its initialization on: the index exists
InitSched ==
    /\ store = {}
    /\ uniqIndex = TRUE
    /\ everStored = {}
    /\ dump = [k \in 1..MaxClaims |-> IF k = 1 THEN RecA ELSE RecB]
    /\ fileExists = FALSE
    /\ fileSize = 0
    /\ written = FALSE
    /\ clock = 0
    /\ cfgBulkSize \in BulkSizes
    /\ ext = [pc |-> "idle", doc |-> <<>>, matched |-> FALSE, count |-> 0]
    /\ pc = [i \in Insts |-> "idle"]
    /\ runs = [i \in Insts |-> 0]
    /\ loc = [i \in Insts |-> NoLoc]
    /\ hist = [i \in Insts |-> [cur |-> NoHist, prev |-> Summary(NoHist)]]
    /\ cfgRunEveryHours \in RunEveryHoursSet
    /\ sched = [i \in Insts |-> NoSched]
    /\ form = "number"
    /\ call = NoCall

NextSched ==
    \/ Create
    \/ Grow
    \/ \E i \in {1} : FirstRun(i) \/ NewTicker(i) \/ Return(i) \/ Hour(i)
                          \/ SelectTick(i) \/ SelectDone(i) \/ Shutdown(i)
                          \/ Stat(i) \/ Poll(i) \/ LoadActive(i) \/ Parse(i)
                          \/ Scan(i) \/ Flush(i) \/ BulkOp(i) \/ BulkOpFail(i)
                          \/ BulkEnd(i) \/ BulkCtxDone(i) \/ Remove(i)

SpecSched == InitSched /\ [][NextSched]_vars
(***************************************************************************)
(* Properties                                                              *)
(***************************************************************************)
\* documents the current run of instance i created
Made(i) == {d \in store : d.by = i /\ d.run = runs[i]}

\* documents batch k of the current run of instance i created
MadeIn(i, k) == {d \in Made(i) : d.batch = k}

\* the tuples persisted
Persisted == {Tuple(d.doc) : d \in store}

RECURSIVE SumOf(_, _)
\* sum of field f ("n" or "credited") over a log of batches
SumOf(log, f) ==
    IF log = <<>> THEN 0
    ELSE (IF f = "n" THEN Head(log).n ELSE Head(log).credited) + SumOf(Tail(log), f)

\* C1 (as claimed): in every reachable state no two persisted documents share
\* the tuple (provider id, content id, sector, term-start).
C1_UniqueTuples ==
    \A d1 \in store : \A d2 \in store :
        Tuple(d1.doc) = Tuple(d2.doc) => d1 = d2

\* C2: every document a run inserted has a provider id that is a member of
\* the active set loadActiveProviders built in that same run.
C2_FilterCorrect ==
    \A i \in Insts : \A d \in Made(i) :
        d.doc.provider_id \in hist[i].cur.active

\* C2 witness: a finished run inserted a claim although the dump also holds a
\* claim of a provider outside the run's active set.
C2_Witness ==
    /\ hist[1].cur.result = "ok"
    /\ Made(1) # {}
    /\ \E id \in DOMAIN dump : dump[id].Provider \notin hist[1].cur.active

\* two runs of instance i ingested the dump in succession: both went through
\* their write phase to the end
TwiceIngested(i) == hist[i].prev.result = "ok" /\ hist[i].cur.result = "ok"

\* C3 (as claimed): when two runs ingest the same dump in succession and no
\* other writer wrote, the second run counts 0 inserts and creates nothing,
\* whatever active sets the runs saw and whatever the first run's batches did.
C3_IdempotentAlways ==
    \A i \in Insts :
        (TwiceIngested(i) /\ ext.count = 0 /\ ext.pc = "idle")
            => (hist[i].cur.added = 0 /\ Made(i) = {})

\* C3 (amended): when two runs ingest the same dump in succession, every
\* bulk-write operation of the first run succeeded and the second run's active
\* set is included in the first run's, the second run counts 0 inserts and
\* creates no document.
C3_Idempotent ==
    \A i \in Insts :
        (/\ TwiceIngested(i)
         /\ hist[i].prev.clean
         /\ hist[i].cur.active \subseteq hist[i].prev.active)
            => (hist[i].cur.added = 0 /\ Made(i) = {})

\* C3 witness: a second ingestion of the dump after a first one that wrote
\* documents without any failure, under an active set no larger.
C3_Witness ==
    /\ TwiceIngested(1)
    /\ hist[1].prev.clean
    /\ hist[1].cur.active \subseteq hist[1].prev.active
    /\ \E d \in store : d.by = 1 /\ d.run = 1 /\ d.doc.provider_id \in hist[1].cur.active

\* C4 (as claimed): a run that saw the size differ between two consecutive
\* observations never opens the file.
C4_AnyChangeNeverOpened ==
    \A i \in Insts : hist[i].cur.any => ~hist[i].cur.opened

\* C4 (amended): a run in which every size poll saw a size other than the
\* observation before it never opens or parses the file, ends skipped once
\* the retry budget is used up, and leaves the file on disk.
C4_AllChangedNeverOpened ==
    \A i \in Insts :
        hist[i].cur.all =>
            /\ ~hist[i].cur.opened
            /\ pc[i] \in {"poll", "idle"}
            /\ pc[i] = "idle" => (hist[i].cur.result = "unstable" /\ fileExists)

\* C4 witness: a run skipped after three polls that each saw a new size.
C4_Witness ==
    /\ hist[1].cur.all
    /\ hist[1].cur.result = "unstable"
    /\ pc[1] = "idle"

\* C5: every document ever persisted is still in the store with every field
\* (updated_at included) as it was written.
C5_InsertOnly == everStored \subseteq store

\* C5 witness: an upsert of the pipeline matched a document that an earlier
\* write created with another updated_at.
C5_Witness ==
    /\ pc[1] = "bulk"
    /\ loc[1].matched > 0
    /\ \E k \in 1..Len(loc[1].batch) :
          /\ k \notin loc[1].todo
          /\ \E d \in store : /\ Tuple(d.doc) = Tuple(loc[1].batch[k])
                              /\ d.doc.updated_at # loc[1].now

\* the ordinal of the batch last submitted by the current run of instance i
LastBatch(i) == IF pc[i] = "bulk" THEN BatchNo(i) ELSE Len(hist[i].cur.batches)

\* C6: when a document with tuple K was in the store before the run submitted
\* the batch holding K (so also when a concurrent writer inserted it after the
\* run's key scan), that batch creates no document with K, the external
\* writer's documents stay as they were written, and the batch is credited no
\* more inserts than the documents it created.
C6_ScanWriteRace ==
    \A i \in Insts :
        /\ \A d \in MadeIn(i, LastBatch(i)) : Tuple(d.doc) \notin hist[i].cur.preSubmit
        /\ \A d \in everStored : d.by = 0 => d \in store
        /\ \A k \in 1..Len(hist[i].cur.batches) :
              hist[i].cur.batches[k].credited <= Cardinality(MadeIn(i, k))

\* C6 witness: a batch of the run held a tuple the key scan had not seen and
\* the external writer had inserted before the batch was submitted.
C6_Witness ==
    /\ pc[1] \in {"flush", "remove"}
    /\ Len(hist[1].cur.batches) > 0
    /\ LET e == hist[1].cur.batches[Len(hist[1].cur.batches)] IN
       /\ ~e.err
       /\ \E d \in store : /\ d.by = 0
                           /\ Tuple(d.doc) \in e.tuples
                           /\ Tuple(d.doc) \in hist[1].cur.preSubmit
                           /\ claimKey(d.doc.provider_id, d.doc.data_cid, d.doc.sector,
                                       d.doc.term_start) \notin loc[1].existingKeys

\* the candidates of the run that insertDiffClaims has to stage
ToStage(i) ==
    {k \in 1..Len(loc[i].claimsList) : Staged(loc[i].claimsList[k], loc[i].existingKeys)}

\* C8: a failed batch does not abort the run: every staged operation is still
\* submitted, and every batch that reported no error has its claims in the
\* store and its inserts in the run's count.
C8_PartialFailureContained ==
    \A i \in Insts :
        /\ hist[i].cur.result # "err_insert"
        /\ pc[i] = "remove" =>
              /\ SumOf(hist[i].cur.batches, "n") = Cardinality(ToStage(i))
              /\ loc[i].prepared = Cardinality(ToStage(i))
              /\ loc[i].inserted = SumOf(hist[i].cur.batches, "credited")
        /\ \A k \in 1..Len(hist[i].cur.batches) :
              LET e == hist[i].cur.batches[k] IN
              ~e.err => /\ e.tuples \subseteq Persisted
                        /\ e.credited = Cardinality(MadeIn(i, k))

\* C8 witness: of two batches of one run, one reported an error and the other
\* was committed and counted.
C8_Witness ==
    /\ pc[1] = "remove"
    /\ \E j, k \in 1..Len(hist[1].cur.batches) :
          /\ hist[1].cur.batches[j].err
          /\ ~hist[1].cur.batches[k].err
          /\ hist[1].cur.batches[k].credited > 0

\* C9: the inserted count of a run, while it runs and as returned, is at most
\* the number of documents that run created.
C9_NeverOvercounts ==
    \A i \in Insts :
        /\ loc[i].inserted <= Cardinality(Made(i))
        /\ hist[i].cur.added <= Cardinality(Made(i))

\* C9 witness: a finished run with a failed batch returned a count below the
\* number of documents it created.
C9_Witness ==
    /\ hist[1].cur.result = "ok"
    /\ ~hist[1].cur.clean
    /\ hist[1].cur.added < Cardinality(Made(1))

\* C10 (as claimed): a batch whose bulk write reported an error adds nothing
\* to the inserted count.
C10_ErrorNotCredited ==
    \A i \in Insts : \A k \in 1..Len(hist[i].cur.batches) :
        hist[i].cur.batches[k].err => hist[i].cur.batches[k].credited = 0

\* C10 (amended): a batch adds to the inserted count the upserted count of the
\* result BulkWrite returned, also when it reported an error, and nothing
\* when no result came back; it never adds more than the documents it created.
C10_ErrorCreditsResult ==
    \A i \in Insts : \A k \in 1..Len(hist[i].cur.batches) :
        LET e == hist[i].cur.batches[k] IN
        /\ e.credited = e.reported
        /\ e.credited <= Cardinality(MadeIn(i, k))

\* C10 witness: a batch that reported an error was credited an insert.
C10_Witness ==
    \E k \in 1..Len(hist[1].cur.batches) :
        hist[1].cur.batches[k].err /\ hist[1].cur.batches[k].credited > 0
\* both instances are between runs and each has ended a run
BothEnded == \A i \in Insts : pc[i] = "idle" /\ hist[i].cur.result # "none"

\* C7 (as claimed): when two instances run concurrently over the same dump and
\* store, the store ends with every tuple persisted at most once and, every
\* bulk write having succeeded, the two reported counts add up to the number
\* of documents the two runs created.
C7_ConcurrentInstances ==
    BothEnded =>
        /\ \A d1 \in store : \A d2 \in store : Tuple(d1.doc) = Tuple(d2.doc) => d1 = d2
        /\ (\A i \in Insts : hist[i].cur.clean) =>
              hist[1].cur.added + hist[2].cur.added
                  = Cardinality(Made(1)) + Cardinality(Made(2))

\* C12: for a present dump file the run goes past the stability gate exactly
\* when one of its at most 3 polls saw the size of the observation before it:
\* a run past the gate made 1 to 3 polls and its last poll saw no change, a
\* run still polling has made fewer than 3 polls and every one saw a change,
\* and a run skipped as unstable made 3 polls that all saw a change, opened
\* nothing and returned nil.
C12_GateDecision ==
    LET h == hist[1].cur IN
    /\ pc[1] \in {"active", "parse"} => (h.polls \in 1..3 /\ ~h.all)
    /\ pc[1] = "poll" => (h.polls < 3 /\ (h.polls > 0 => h.all))
    /\ h.result = "unstable" =>
          /\ pc[1] = "idle"
          /\ h.polls = 3
          /\ h.all
          /\ ~h.opened
          /\ ~ReturnsErr(h.result)

\* C12 witness: a run went past the gate at its third poll, after two polls
\* that saw the file grow.
C12_Witness ==
    /\ pc[1] = "active"
    /\ hist[1].cur.polls = 3
    /\ hist[1].cur.any
    /\ ~hist[1].cur.all

\* C19: a run whose first os.Stat found no file has returned nil there: it is
\* over, skipped without error, and it made no size poll, no chain query, no
\* parse, no batch and no document.
C19_AbsentSkipped ==
    LET h == hist[1].cur IN
    h.absent =>
        /\ pc[1] = "idle"
        /\ h.result = "notfound"
        /\ ~ReturnsErr(h.result)
        /\ h.polls = 0
        /\ h.active = {}
        /\ ~h.opened
        /\ h.batches = <<>>
        /\ Made(1) = {}

\* C19 witness: the run after a run that ingested and removed the file finds
\* no file, with documents in the store.
C19_Witness ==
    /\ hist[1].cur.absent
    /\ hist[1].prev.result = "ok"
    /\ store # {}

(************************* runs without end *********************************)
\* entry of runFromTodayDumpOnce when runs go on for ever: the run counter
\* (history) and the clock stop counting at MaxLiveRuns
BeginLive(i) ==
    /\ runs' = [runs EXCEPT ![i] = IF @ < MaxLiveRuns THEN @ + 1 ELSE @]
    /\ clock' = IF clock < MaxLiveRuns THEN clock + 1 ELSE clock
    /\ pc' = [pc EXCEPT ![i] = "stat"]
    /\ loc' = [loc EXCEPT ![i] = NoLoc]
    /\ hist' = [hist EXCEPT ![i] = [cur |-> [NoHist EXCEPT !.result = "running"],
                                    prev |-> Summary(hist[i].cur)]]

\* the scheduler calls runFromTodayDumpOnce, again and again
StartLive(i) ==
    /\ pc[i] = "idle"
    /\ BeginLive(i)
    /\ UNCHANGED <<storeVars, envVars, sched, fileVars, ext>>

\* one process with its index in place and the dump of the day
InitLive ==
    /\ store = {}
    /\ uniqIndex = TRUE
    /\ everStored = {}
    /\ dump = [k \in 1..MaxClaims |-> IF k = 1 THEN RecA ELSE RecB]
    /\ fileExists = FALSE
    /\ fileSize = 0
    /\ written = FALSE
    /\ clock = 0
    /\ cfgBulkSize \in BulkSizes
    /\ ext = [pc |-> "idle", doc |-> <<>>, matched |-> FALSE, count |-> 0]
    /\ pc = [i \in Insts |-> "idle"]
    /\ runs = [i \in Insts |-> 0]
    /\ loc = [i \in Insts |-> NoLoc]
    /\ hist = [i \in Insts |-> [cur |-> NoHist, prev |-> Summary(NoHist)]]
    /\ cfgRunEveryHours = 1
    /\ sched = [i \in Insts |-> NoSched]
    /\ form = "number"
    /\ call = NoCall

NextLive ==
    \/ Create
    \/ Grow
    \/ \E i \in {1} : StartLive(i) \/ Stat(i) \/ Poll(i) \/ LoadActive(i) \/ Parse(i)
                          \/ Scan(i) \/ Flush(i) \/ BulkOp(i) \/ BulkOpFail(i)
                          \/ BulkEnd(i) \/ Remove(i)

\* the producer completes its file, scheduled runs keep occurring, every step
\* of a run returns and the server goes through every batch; nothing obliges
\* an operation to fail
FairLive ==
    /\ WF_vars(Create)
    /\ WF_vars(Grow)
    /\ WF_vars(StartLive(1))
    /\ WF_vars(Stat(1))
    /\ WF_vars(Poll(1))
    /\ WF_vars(LoadActive(1))
    /\ WF_vars(Parse(1))
    /\ WF_vars(Scan(1))
    /\ WF_vars(Flush(1))
    /\ WF_vars(BulkOp(1))
    /\ WF_vars(BulkEnd(1))
    /\ WF_vars(Remove(1))

SpecLive == InitLive /\ [][NextLive]_vars /\ FairLive

(************************* scheduler properties *****************************)
\* C13: single-flight within one process.  While a run is in progress main
\* is inside the call that started it, and a run is started only when no
\* run is in progress, however many ticks fell due meanwhile.
C13_SingleFlight ==
    /\ [](pc[1] # "idle" => sched[1].pos \in {"first", "run"})
    /\ [][runs'[1] # runs[1] => pc[1] = "idle"]_vars

\* C13 witness: a run of a tick is still in progress after two further ticks
\* fell due.
C13_Witness ==
    /\ sched[1].pos = "run"
    /\ pc[1] \notin {"idle", "stat"}
    /\ sched[1].due = 2

\* C14: tick coalescing.  The k >= 1 ticks that fell due since a run was
\* called leave exactly one tick to be received, whatever k; back at the
\* select that tick starts a run without waiting for another one, and the
\* start of that run leaves no tick behind, so there is one catch-up run and
\* no second one.
C14_TickCoalescing ==
    /\ [](sched[1].pos \in {"run", "loop"} =>
            sched[1].pending = IF sched[1].due >= 1 THEN 1 ELSE 0)
    /\ []((sched[1].pos = "loop" /\ sched[1].due >= 1 /\ runs[1] < MaxSchedRuns)
            => ENABLED SelectTick(1))
    /\ [][(runs'[1] # runs[1] /\ sched[1].pos = "loop")
            => (sched'[1].pending = 0 /\ sched'[1].due = 0)]_vars

\* C14 witness: a run of a tick has returned after two ticks fell due during
\* the call; one tick is in the channel.
C14_Witness ==
    /\ sched[1].pos = "run"
    /\ pc[1] = "idle"
    /\ sched[1].due = 2
    /\ sched[1].pending = 1

\* the period the configuration asks for, in hours
Period == IF cfgRunEveryHours <= 0 THEN 1 ELSE cfgRunEveryHours

\* C15: scheduler sequencing.  The first run is called at once, before the
\* ticker exists and so before any tick; every later run is called at the
\* select by receiving one tick; and a tick falls due exactly when a whole
\* period has passed on the ticker, the period being RUN_EVERY_HOURS hours,
\* or 1 hour when that is not positive.
C15_SchedulerSequencing ==
    /\ [](sched[1].pos = "boot" => (runs[1] = 0 /\ sched[1].pending = 0))
    /\ [](sched[1].pos = "first" =>
            (runs[1] = 1 /\ sched[1].pending = 0 /\ sched[1].due = 0))
    /\ [](sched[1].elapsed < Period)
    /\ [][runs'[1] # runs[1] =>
            \/ sched[1].pos = "boot" /\ runs[1] = 0
            \/ /\ sched[1].pos = "loop"
               /\ sched[1].pending >= 1
               /\ sched'[1].pending = sched[1].pending - 1]_vars
    /\ [][sched'[1].due = sched[1].due + 1 =>
            (sched[1].elapsed + 1 = Period /\ sched'[1].elapsed = 0)]_vars
    /\ [][sched'[1].elapsed # sched[1].elapsed =>
            \/ sched'[1].elapsed = sched[1].elapsed + 1 /\ sched'[1].elapsed < Period
            \/ sched'[1].elapsed = 0 /\ sched'[1].due = sched[1].due + 1
            \/ sched[1].pos = "first"]_vars

\* C15 witness: with a non-positive RUN_EVERY_HOURS a second run was called
\* at the select.
C15_Witness ==
    /\ cfgRunEveryHours <= 0
    /\ sched[1].pos = "run"
    /\ runs[1] = 2
    /\ pc[1] = "stat"

\* C16: per-run errors are recovered locally.  However the run ended, main
\* goes from its call back to the select; main has returned only if the
\* interrupt came; at the select a tick in the channel starts a run, and
\* without the interrupt the select does not return.
C16_ErrorsRecovered ==
    /\ [](sched[1].pos = "exit" => sched[1].cancelled)
    /\ []((sched[1].pos = "loop" /\ sched[1].pending >= 1 /\ runs[1] < MaxSchedRuns)
            => ENABLED SelectTick(1))
    /\ []((sched[1].pos = "loop" /\ ~sched[1].cancelled) => ~ENABLED SelectDone(1))
    /\ []((sched[1].pos \in {"first", "run"} /\ pc[1] = "idle")
            => ENABLED (NewTicker(1) \/ Return(1)))
    /\ [][(sched[1].pos \in {"first", "run"} /\ sched'[1].pos # sched[1].pos
            /\ ~sched[1].cancelled) => sched'[1].pos = "loop"]_vars

\* C16 witness: the run of a tick is in progress after a run that returned
\* an error, with no interrupt.
C16_Witness ==
    /\ sched[1].pos = "run"
    /\ pc[1] = "stat"
    /\ ReturnsErr(hist[1].prev.result)
    /\ ~sched[1].cancelled

\* C17: an interrupt that comes while the run sleeps between two size checks
\* ends the run there: the next step of the run is its return, with no
\* further size poll.
C17_CancelStopsPolling ==
    [][(sched[1].asleep /\ pc[1] = "poll" /\ <<pc[1], loc[1]>>' # <<pc[1], loc[1]>>)
        => (pc'[1] = "idle" /\ hist'[1].cur.polls = hist[1].cur.polls)]_vars

\* C18: once the interrupt has come and no run is in progress, the select
\* starts no run, with or without a tick in the channel.
C18_ShutdownStopsScheduling ==
    [][(sched[1].cancelled /\ sched[1].pos = "loop" /\ pc[1] = "idle")
        => runs'[1] = runs[1]]_vars

\* C20: a run in which loadActiveProviders returned an error (chain head or
\* miner list) has returned that error there: it is over with an error,
\* opened and parsed nothing, made no batch and no document, and the dump
\* file is on disk; the error does not end main, and back at the select a
\* tick in the channel starts a new run.
C20_FilterBuildFailure ==
    LET h == hist[1].cur IN
    /\ h.filterErr =>
          /\ pc[1] = "idle"
          /\ h.result = "err_active"
          /\ ReturnsErr(h.result)
          /\ h.active = {}
          /\ ~h.opened
          /\ h.batches = <<>>
          /\ Made(1) = {}
          /\ fileExists
          /\ sched[1].pos = "exit" => sched[1].cancelled
          /\ (sched[1].pos = "loop" /\ sched[1].pending >= 1 /\ runs[1] < MaxSchedRuns)
                => ENABLED SelectTick(1)

\* C20 witness: after a run that failed to build the filter, the next tick
\* has started a new run and the file is still there.
C20_Witness ==
    /\ hist[1].prev.result = "err_active"
    /\ sched[1].pos = "run"
    /\ pc[1] = "stat"
    /\ fileExists

(************************* convergence **************************************)
\* the run has parsed the stable dump and its list holds record r: r is in
\* the file and its provider is in the active set of the run
Listed(r) ==
    /\ pc[1] = "scan"
    /\ \E k \in 1..Len(loc[1].claimsList) :
          Tuple(loc[1].claimsList[k]) = Tuple(ToDBClaim(0, r, 0))

\* the claim of record r is persisted
Stored(r) == Tuple(ToDBClaim(0, r, 0)) \in Persisted

\* the chain node answers the run and every miner is in its active set
ChainGood ==
    /\ hist[1].cur.result \notin {"err_active", "noactive"}
    /\ hist[1].cur.active \in {{}, Miners}

\* the store answers the run: its key scan has not failed and no batch of
\* it has reported an error
StoreGood ==
    /\ hist[1].cur.clean
    /\ hist[1].cur.result # "err_scan"

\* C11: at-least-once convergence.  With scheduled runs that keep occurring,
\* a chain node that always answers with every provider active, and a store
\* whose reads and writes succeed from some time on, every claim a run has
\* read from the stable dump with its provider active is eventually
\* persisted, also when the batch that held it failed.
C11_Convergence ==
    ([]ChainGood /\ <>[]StoreGood) => \A r \in Recs : (Listed(r) ~> Stored(r))
(************************* epochs and instants ******************************)
\* Integers of 32 and 64 bits are kept as two digits of base 2^16,
\* hi * Half + lo with 0 <= lo < Half: the products and sums of the epoch
\* conversions are beyond the integers a model value holds.  An int32 has
\* -2^15 <= hi < 2^15; the int64 values here have 0 <= hi < 2^21.
Half == 65536

\* the digits of a non-negative integer below 2^31
Split(n) == [hi |-> n \div Half, lo |-> n % Half]

\* x * k + c without overflow, for 0 <= x < 2^31 and small k, c >= 0
MulAdd(x, k, c) ==
    LET low == (x % Half) * k + (c % Half)
    IN [hi |-> (x \div Half) * k + (c \div Half) + (low \div Half),
        lo |-> low % Half]

\* the int32 that the low 32 bits of v make: int32 arithmetic wraps
Wrap32(v) ==
    LET h == v.hi % Half
    IN [hi |-> IF h >= Half \div 2 THEN h - Half ELSE h, lo |-> v.lo]

\* time.Time{} and time.Unix(sec, 0).UTC()
ZeroTime == [zero |-> TRUE, hi |-> 0, lo |-> 0]
Unix(sec) == [zero |-> FALSE, hi |-> sec.hi, lo |-> sec.lo]

\* EpochToTime(epoch int32): epoch*30+1598306400 is computed in int32, each
\* operation wrapping, and then widened to int64
EpochToTime(epoch) ==
    IF epoch < 0 THEN ZeroTime
    ELSE LET product == Wrap32(MulAdd(epoch, 30, 0))
             sum == Wrap32([hi |-> product.hi + Split(1598306400).hi
                                   + (product.lo + Split(1598306400).lo) \div Half,
                            lo |-> (product.lo + Split(1598306400).lo) % Half])
         IN Unix(sum)

\* EpochToTime64(epoch int64): epoch*epochDurationSec+filecoinGenesisUnix in
\* int64, which holds it for every epoch of 32 bits
EpochToTime64(epoch) ==
    IF epoch < 0 THEN ZeroTime
    ELSE Unix(MulAdd(epoch, epochDurationSec, filecoinGenesisUnix))

\* the epochs the conversions are called on: around zero, around the epochs
\* where the int32 sum and the int32 product pass 2^31, and the ends of int32
EpochSamples ==
    (-40..60)
    \cup {18305908 + k : k \in -20..20}
    \cup {71582788 + k : k \in -20..20}
    \cup {2147483647 - k : k \in 0..20}
    \cup {(0 - 2147483647) - 1 + k : k \in 0..20}
EpochCalls ==
    {[fn |-> "EpochToTime", epoch |-> e, done |-> FALSE,
      res |-> [t32 |-> ZeroTime, t64 |-> ZeroTime]] : e \in EpochSamples}

(************************* tasks from claims ********************************)
\* util.AddTasks: task.ModuleName and task.ErrorCode values
GraphSync == "graphsync"
Bitswap == "bitswap"
HTTP == "http"
NoValidMultiAddrs == "no_valid_multiaddrs"
InvalidPeerID == "invalid_peerid"

\* the keys of moduleMetadataMap
moduleMetadataMap == {GraphSync, Bitswap, HTTP}

\* the orders in which a range over moduleMetadataMap may visit its keys
ModuleOrders == Orders(moduleMetadataMap)

\* what ResolveMultiaddrsBytes may return as its error: one of the four
\* error types AddTasks names, or something else
LocationErrors == {"bogon", "invalidip", "hostlookup", "novalidmultiaddr", "other"}

\* (mutant) every location error is reported as a failed result
ReportedAny(err) == TRUE

\* errors.As(err, &BogonIPError{}) || ... || errors.As(err, &NoValidMultiAddrError{})
Reported(err) == err \in {"bogon", "invalidip", "hostlookup", "novalidmultiaddr"}

\* what the resolvers and peer.Decode answer for one document: the provider
\* is resolved or not, its location is resolved or fails with an error, its
\* peer id decodes or not (a call that is not reached answers nothing)
Answers ==
    {[provider |-> FALSE, location |-> "-", peer |-> FALSE]}
    \cup {[provider |-> TRUE, location |-> e, peer |-> FALSE] : e \in LocationErrors}
    \cup {[provider |-> TRUE, location |-> "ok", peer |-> p] : p \in BOOLEAN}

\* the k-th document of a call (model.DBClaim: MinerAddr, ClientAddr, DataCID)
DocumentAt(k) ==
    [MinerAddr |-> MinerAddr(1000 + k), ClientAddr |-> MinerAddr(k),
     DataCID |-> <<"a">>]

\* the task AddTasks appends for a document
NewTask(document) ==
    [Module |-> HTTP, ID |-> document.MinerAddr, CID |-> document.DataCID]

\* addErrorResults: one failed result per module, in the order of the range
addErrorResults(results, document, errorCode, order) ==
    results \o [j \in 1..Len(order) |->
                   [Module |-> order[j], ID |-> document.MinerAddr,
                    CID |-> document.DataCID, Success |-> FALSE,
                    ErrorCode |-> errorCode]]

RECURSIVE AddTasksFrom(_, _, _, _, _)
\* the loop of AddTasks from document k on
AddTasksFrom(documents, answers, orders, k, out) ==
    IF k > Len(documents) THEN out
    ELSE LET document == documents[k]
             a == answers[k]
         IN AddTasksFrom(documents, answers, orders, k + 1,
              IF ~a.provider THEN out
              ELSE IF a.location # "ok"
              THEN IF Reported(a.location)
                   THEN [out EXCEPT !.results =
                            addErrorResults(@, document, NoValidMultiAddrs, orders[k])]
                   ELSE out
              ELSE IF ~a.peer
              THEN [out EXCEPT !.results =
                       addErrorResults(@, document, InvalidPeerID, orders[k])]
              ELSE [out EXCEPT !.tasks = Append(@, NewTask(document))])

AddTasks(documents, answers, orders) ==
    AddTasksFrom(documents, answers, orders, 1, [tasks |-> <<>>, results |-> <<>>])

AddTasksCalls ==
    UNION {{[fn |-> "AddTasks", documents |-> [k \in 1..n |-> DocumentAt(k)],
             answers |-> a, done |-> FALSE,
             res |-> [tasks |-> <<>>, results |-> <<>>]] :
               a \in [1..n -> Answers]} : n \in 0..MaxDocs}

(************************* keys of two claims *******************************)
\* uniqueness tuples whose fields share digits, with content ids that are
\* empty, hold digits or hold the separator of the key
KeyCids == {<<>>, <<"2">>, <<"|">>, <<"2", "|", "1">>, <<"1", "|", "2">>, <<"|", "1">>}
KeyTuples ==
    {[provider_id |-> p, data_cid |-> c, sector |-> s, term_start |-> t] :
        p \in {1, 12}, c \in KeyCids, s \in {1, 21}, t \in {1, -1}}

\* one persisted claim, whose key is the index (loadAllClaimKeysFromDB), and
\* one candidate of the dump (the test of insertDiffClaims)
KeyCalls ==
    {[fn |-> "claimKey", persisted |-> x, candidate |-> y, done |-> FALSE,
      res |-> [persistedKey |-> <<>>, candidateKey |-> <<>>, staged |-> FALSE]] :
        x \in KeyTuples, y \in KeyTuples}

(************************* functions called on their own *******************)
\* insertDiffClaims from a flushBatch on: the batch in hand is submitted
\* unless it is empty, and the loop goes on to its next flushBatch.  The
\* batches submitted are collected in out.
RECURSIVE Submit(_, _)
Submit(l, out) ==
    LET sent == IF l.batch = <<>> THEN out ELSE Append(out, l.batch) IN
    IF l.final THEN sent
    ELSE Submit(Resume([l EXCEPT !.batch = <<>>]), sent)

\* insertDiffClaims with every bulk write succeeding: the bulk size it used
\* and the batches it submitted, in order
insertDiffClaims(chainClaims, existingKeys, bulkSize, now) ==
    IF Len(chainClaims) = 0
    THEN [bulkSize |-> bulkSize, batches |-> <<>>]
    ELSE LET l == [NoLoc EXCEPT !.claimsList = chainClaims,
                                !.existingKeys = existingKeys,
                                !.bulkSize = EffectiveBulk(bulkSize),
                                !.now = now]
         IN [bulkSize |-> l.bulkSize, batches |-> Submit(DiffLoop(l), <<>>)]

\* the chains loadActiveProviders is called on
ActiveCalls == {[fn |-> "loadActiveProviders", chain |-> c, done |-> FALSE,
                 res |-> [err |-> FALSE, active |-> {}]] : c \in Chains}

\* the identifier strings, and the JSON values cidOrObj is called on: the two
\* accepted forms of each, and values of other shapes
CidStrings == {<<>>, <<"a">>, <<"a", "b">>, <<"/">>}
CidValues ==
    {JStr(s) : s \in CidStrings}
    \cup {JObj(<<[k |-> CidKey, v |-> JStr(s)]>>) : s \in CidStrings}
    \cup {JObj(<<[k |-> <<"x">>, v |-> JNum(<<"1">>)],
                 [k |-> CidKey, v |-> JStr(s)]>>) : s \in CidStrings}
    \cup {JObj(<<[k |-> <<"c", "i", "d">>, v |-> JStr(s)]>>) : s \in CidStrings}
    \cup {JObj(<<>>), JNull, JNum(<<"1">>),
          JObj(<<[k |-> CidKey, v |-> JNum(<<"1">>)]>>),
          JObj(<<[k |-> CidKey, v |-> JNull]>>),
          JObj(<<[k |-> CidKey, v |-> JObj(<<>>)]>>)}
CidCalls == {[fn |-> "cidOrObj", arg |-> b, done |-> FALSE, res |-> Err(<<>>)] :
                b \in CidValues}

\* the JSON values the numeric decoders are called on: each integer of the
\* range as a JSON number and as a string of its decimal digits, and values
\* that are neither
NumberCall(fn, n, shape) ==
    [fn |-> fn, n |-> n, shape |-> shape,
     arg |-> IF shape = "number" THEN JNum(Dec(n)) ELSE JStr(Dec(n)),
     done |-> FALSE, res |-> Err(0)]
OtherCall(fn, b) ==
    [fn |-> fn, n |-> 0, shape |-> "other", arg |-> b, done |-> FALSE,
     res |-> Err(0)]
OtherNumbers ==
    {JNull, JObj(<<>>), JStr(<<>>), JStr(<<"x">>), JStr(<<"1", "x">>),
     JNum(<<"1", ".", "5">>), JStr(<<"1", ".", "5">>), JStr(<<"+", "5">>),
     JStr(<<"-">>), JStr(<<"0", "7">>)}
U64Calls ==
    {NumberCall("u64OrStr", n, shape) :
        n \in 0..MaxUint, shape \in {"number", "string"}}
    \cup {OtherCall("u64OrStr", b) :
            b \in OtherNumbers \cup {JNum(Dec(MaxUint + 1)), JStr(Dec(MaxUint + 1)),
                                      JNum(Dec(-1)), JStr(Dec(-1))}}
I64Calls ==
    {NumberCall("i64OrStr", n, shape) :
        n \in (0 - MaxInt - 1)..MaxInt, shape \in {"number", "string"}}
    \cup {OtherCall("i64OrStr", b) :
            b \in OtherNumbers \cup {JNum(Dec(MaxInt + 1)), JStr(Dec(MaxInt + 1)),
                                      JNum(Dec(0 - MaxInt - 2)),
                                      JStr(Dec(0 - MaxInt - 2))}}

\* the candidate lists, key indexes and bulk sizes insertDiffClaims is called
\* on: the k-th candidate is the claim k of one of the records, read at time 0
CandidateLists ==
    UNION {{[k \in 1..n |-> ToDBClaim(k, f[k], 0)] : f \in [1..n -> Recs]} :
              n \in 0..MaxList}
KeyIndexes ==
    SUBSET {claimKey(ToInt64(r.Provider), r.Data, r.Sector, r.TermStart) : r \in Recs}
DiffBulkSizes == {-1, 0, 1, 2, 3}
DiffCalls ==
    {[fn |-> "insertDiffClaims", chainClaims |-> l, existingKeys |-> ks,
      bulkSize |-> b, done |-> FALSE, res |-> [bulkSize |-> 0, batches |-> <<>>]] :
        l \in CandidateLists, ks \in KeyIndexes, b \in DiffBulkSizes}

Calls ==
    ActiveCalls \cup CidCalls \cup U64Calls \cup I64Calls \cup DiffCalls
        \cup EpochCalls
        \cup AddTasksCalls
        \cup KeyCalls

runVars == <<storeVars, fileVars, clock, ext, pc, runs, loc, hist, sched, dump,
             uniqIndex, cfgBulkSize, cfgRunEveryHours, form>>

\* the function called returns
Returns(fn, res) ==
    /\ call.fn = fn
    /\ ~call.done
    /\ call' = [call EXCEPT !.done = TRUE, !.res = res]
    /\ UNCHANGED runVars

CallLoadActive == Returns("loadActiveProviders", loadActiveProviders(call.chain))
CallCid == Returns("cidOrObj", cidOrObj(call.arg))
CallU64 == Returns("u64OrStr", u64OrStr(call.arg))
CallI64 == Returns("i64OrStr", i64OrStr(call.arg))
CallDiff ==
    Returns("insertDiffClaims",
            insertDiffClaims(call.chainClaims, call.existingKeys, call.bulkSize, 1))

CallEpoch ==
    Returns("EpochToTime",
            [t32 |-> EpochToTime(call.epoch), t64 |-> EpochToTime64(call.epoch)])

CallAddTasks ==
    /\ call.fn = "AddTasks"
    /\ \E orders \in [1..Len(call.documents) -> ModuleOrders] :
        Returns("AddTasks", AddTasks(call.documents, call.answers, orders))

CallClaimKey ==
    /\ call.fn = "claimKey"
    /\ LET x == call.persisted
           y == call.candidate
       IN Returns("claimKey",
            [persistedKey |->
                 claimKey(x.provider_id, x.data_cid, x.sector, x.term_start),
             candidateKey |->
                 claimKey(y.provider_id, y.data_cid, y.sector, y.term_start),
             staged |-> Staged(y, ScanKeys({[doc |-> x]}))])

InitCall ==
    /\ store = {}
    /\ uniqIndex = TRUE
    /\ everStored = {}
    /\ dump = [k \in 1..MaxClaims |-> IF k = 1 THEN RecA ELSE RecB]
    /\ fileExists = FALSE
    /\ fileSize = 0
    /\ written = FALSE
    /\ clock = 0
    /\ cfgBulkSize = 1
    /\ ext = [pc |-> "idle", doc |-> <<>>, matched |-> FALSE, count |-> 0]
    /\ pc = [i \in Insts |-> "idle"]
    /\ runs = [i \in Insts |-> 0]
    /\ loc = [i \in Insts |-> NoLoc]
    /\ hist = [i \in Insts |-> [cur |-> NoHist, prev |-> Summary(NoHist)]]
    /\ cfgRunEveryHours = 1
    /\ sched = [i \in Insts |-> NoSched]
    /\ form = "number"
    /\ call \in Calls

NextCall ==
    CallLoadActive \/ CallCid \/ CallU64 \/ CallI64 \/ CallDiff \/ CallEpoch
        \/ CallAddTasks \/ CallClaimKey

SpecCall == InitCall /\ [][NextCall]_vars

\* the miner's power record at the head resolved at the start of the build is
\* there and has raw byte power or quality-adjusted power above zero
HasPowerAtHead(chain, m) ==
    LET p == chain.power[chain.head][m] IN
    ~p.err /\ ~p.nil /\ (p.raw > 0 \/ p.qa > 0)

\* the miner's address resolves to an actor id
Resolves(chain, m) == chain.lookup[m].err = "none"

\* C21: when the head and the miner list are read, loadActiveProviders
\* returns without error whatever lookups of single actors fail, and its
\* result holds the id of every listed miner whose own lookups succeed and
\* whose power is positive.
C21_PerActorIsolation ==
    (call.fn = "loadActiveProviders" /\ call.done /\ call.chain.fail = "none") =>
        /\ ~call.res.err
        /\ \A m \in Miners :
              (HasPowerAtHead(call.chain, m) /\ Resolves(call.chain, m))
                  => call.chain.lookup[m].id \in call.res.active

\* one miner's power lookup fails, the other's id resolution fails in a
\* second chain; here the first fails and the second is in the result
C21_Witness ==
    /\ call.fn = "loadActiveProviders" /\ call.done
    /\ call.chain.power[call.chain.head][1001].err
    /\ call.chain.lookup[1001].err = "none"
    /\ ~call.res.err
    /\ call.res.active = {1002}

\* C22: the set loadActiveProviders returns is exactly the set of actor ids of
\* the listed miners whose power record at the head resolved at the start has
\* raw byte power or quality-adjusted power above zero and whose lookups
\* succeeded; a miner with both powers zero at that head is not in it.
C22_ActiveSetExact ==
    (call.fn = "loadActiveProviders" /\ call.done /\ call.chain.fail = "none") =>
        /\ call.res.active =
              {call.chain.lookup[m].id :
                  m \in {x \in Miners : HasPowerAtHead(call.chain, x)
                                          /\ Resolves(call.chain, x)}}
        /\ \A m \in Miners :
              call.chain.power[call.chain.head][m] = Power(0, 0)
                  => m \notin call.res.active

\* a miner with quality-adjusted power only is in the set; a miner with no
\* power at the head of the build, and power at the later head, is not
C22_Witness ==
    /\ call.fn = "loadActiveProviders" /\ call.done
    /\ call.chain.power[call.chain.head][1001] = Power(0, 1)
    /\ call.chain.power[call.chain.head][1002] = Power(0, 0)
    /\ call.chain.power[call.chain.latest][1002] = Power(1, 0)
    /\ call.chain.lookup[1002].err = "none"
    /\ call.res.active = {1001}

(************************* parsing the dump *********************************)
\* C23: when the decode of the file fails, loadClaimsFromFileFiltered returns
\* an error and no candidate list, the run ends there with that error, and
\* the run has written no claim.
C23_AtomicParse ==
    \A i \in Insts :
        hist[i].cur.parseErr =>
            /\ pc[i] = "idle"
            /\ hist[i].cur.result = "err_parse"
            /\ ReturnsErr(hist[i].cur.result)
            /\ loc[i].claimsList = <<>>
            /\ hist[i].cur.batches = <<>>
            /\ Made(i) = {}

\* a run has opened a file the producer had not completed; the provider of
\* its first record was active
C23_Witness ==
    /\ hist[1].cur.parseErr
    /\ hist[1].cur.opened
    /\ fileSize < MaxSize
    /\ dump[1].Provider \in hist[1].cur.active
    /\ hist[1].cur.result = "err_parse"

\* runs over a file the producer has completed, in each of the
\* representations, with no other writer and no failure of the store
InitParse ==
    /\ store = {}
    /\ uniqIndex = TRUE
    /\ everStored = {}
    /\ dump \in Dumps
    /\ fileExists = TRUE
    /\ fileSize = MaxSize
    /\ written = TRUE
    /\ clock = 0
    /\ cfgBulkSize \in BulkSizes
    /\ ext = [pc |-> "idle", doc |-> <<>>, matched |-> FALSE, count |-> 0]
    /\ pc = [i \in Insts |-> "idle"]
    /\ runs = [i \in Insts |-> 0]
    /\ loc = [i \in Insts |-> NoLoc]
    /\ hist = [i \in Insts |-> [cur |-> NoHist, prev |-> Summary(NoHist)]]
    /\ cfgRunEveryHours = 1
    /\ sched = [i \in Insts |-> NoSched]
    /\ form \in Forms
    /\ call = NoCall

NextParse ==
    \E i \in {1} : StartRun(i) \/ Stat(i) \/ Poll(i) \/ LoadActive(i) \/ Parse(i)
                      \/ Scan(i) \/ Flush(i) \/ BulkOp(i) \/ BulkEnd(i) \/ Remove(i)

SpecParse == InitParse /\ [][NextParse]_vars

\* the records of the file that decode
Decodable == {id \in DOMAIN dump : DecodeRecord(Document(dump, form)[id]).ok}

\* C24 (as claimed): a record whose content id or numeric field matches no
\* accepted representation is skipped on its own: the run that opened the
\* file is not aborted by a decode error, and once it has ended the other
\* records of active providers are in the store.
C24_PerRecordSkip ==
    (form \in BadForms /\ hist[1].cur.opened) =>
        /\ ~hist[1].cur.parseErr
        /\ hist[1].cur.result = "ok" =>
              \A id \in Decodable :
                  dump[id].Provider \in hist[1].cur.active
                      => Tuple(ToDBClaim(id, dump[id], 0)) \in Persisted

\* C24 (amended): a record whose content id or numeric field matches no
\* accepted representation fails the decode of the whole file: the run that
\* opened the file ends there with the decode error, no record of the file is
\* ingested, and the file stays on disk.
C24_RecordFailureAborts ==
    (form \in BadForms /\ hist[1].cur.opened) =>
        /\ hist[1].cur.parseErr
        /\ pc[1] = "idle"
        /\ hist[1].cur.result = "err_parse"
        /\ store = {}
        /\ fileExists

\* the last record has an object without the reserved key for its content
\* id; the first record decodes and its provider is active
C24_Witness ==
    /\ form = "nokey"
    /\ hist[1].cur.opened
    /\ 1 \in Decodable
    /\ Decodable # DOMAIN dump
    /\ dump[1].Provider \in hist[1].cur.active
    /\ hist[1].cur.result = "err_parse"
    /\ store = {}

(************************* cleanup ******************************************)
\* the ways a run is skipped or aborted before its write phase
Unfinished ==
    {"notfound", "unstable", "err_stat", "err_active", "noactive", "err_parse",
     "err_scan"}

\* C25: the file is deleted only by the step that follows the write phase of
\* a run (os.Remove after insertDiffClaims returned); a run that ends skipped
\* or aborted leaves the file as it is; and a run whose os.Remove failed ends
\* like one whose os.Remove succeeded, without error.
C25_Cleanup ==
    [][/\ (fileExists /\ ~fileExists') =>
              (pc[1] = "remove" /\ pc'[1] = "idle" /\ hist'[1].cur.result = "ok")
       /\ (pc[1] # "idle" /\ pc'[1] = "idle" /\ hist'[1].cur.result \in Unfinished) =>
              (pc[1] \notin {"flush", "bulk", "remove"} /\ fileExists' = fileExists)
       /\ (pc[1] = "remove" /\ pc'[1] = "idle") =>
              (hist'[1].cur.result = "ok" /\ ~ReturnsErr(hist'[1].cur.result))
      ]_vars

\* a run has written its claims and its os.Remove has failed: the file is
\* still there (the producer creates the file once) and the run ended well
C25_Witness ==
    /\ pc[1] = "idle"
    /\ hist[1].cur.result = "ok"
    /\ Made(1) # {}
    /\ fileExists

(************************* the diff and its batches *************************)
RECURSIVE Flatten(_)
\* the operations of a sequence of batches, in the order submitted
Flatten(batches) ==
    IF batches = <<>> THEN <<>> ELSE Head(batches) \o Flatten(Tail(batches))

\* the key of a candidate is in the index
Known(c, keys) ==
    claimKey(c.provider_id, c.data_cid, c.sector, c.term_start) \in keys

\* the candidates of the call whose key is not in its index, in list order
NewCandidates ==
    SelectSeq(call.chainClaims, LAMBDA c : ~Known(c, call.existingKeys))

\* the candidate each operation submitted was built from
Submitted ==
    LET ops == Flatten(call.res.batches) IN
    [k \in 1..Len(ops) |-> [ops[k] EXCEPT !.updated_at = 0]]

\* C26: insertDiffClaims stages no write for a candidate whose key is in the
\* existing-key index: the operations it submits are exactly the candidates
\* whose key is absent from the index, and a list whose keys are all in the
\* index leads to no bulk write, hence to no insert.
C26_DiffByKey ==
    (call.fn = "insertDiffClaims" /\ call.done) =>
        /\ Submitted = NewCandidates
        /\ \A k \in 1..Len(Submitted) : ~Known(Submitted[k], call.existingKeys)
        /\ (\A k \in 1..Len(call.chainClaims) :
                Known(call.chainClaims[k], call.existingKeys))
              => call.res.batches = <<>>

\* a list of three candidates, the second of them with its key in the index:
\* the first and the third are submitted
C26_Witness ==
    /\ call.fn = "insertDiffClaims" /\ call.done
    /\ Len(call.chainClaims) = 3
    /\ ~Known(call.chainClaims[1], call.existingKeys)
    /\ Known(call.chainClaims[2], call.existingKeys)
    /\ ~Known(call.chainClaims[3], call.existingKeys)
    /\ Len(Submitted) = 2
    /\ Submitted[1].claim_id = 1
    /\ Submitted[2].claim_id = 3

\* C30: every staged operation is submitted in exactly one bulk write; every
\* batch submitted holds at least one and at most bulkSize operations, and
\* every batch but the last holds exactly bulkSize; a bulkSize of zero or
\* less is replaced by 2000.
C30_Batching ==
    (call.fn = "insertDiffClaims" /\ call.done /\ call.chainClaims # <<>>) =>
        LET b == call.res.batches
            size == IF call.bulkSize <= 0 THEN 2000 ELSE call.bulkSize
        IN /\ call.res.bulkSize = size
           /\ Submitted = NewCandidates
           /\ \A j, k \in 1..Len(Submitted) :
                 Submitted[j].claim_id = Submitted[k].claim_id => j = k
           /\ \A k \in 1..Len(b) : Len(b[k]) >= 1 /\ Len(b[k]) <= size
           /\ \A k \in 1..(Len(b) - 1) : Len(b[k]) = size

\* four staged operations under a bulk size of three: a full batch and a
\* last batch of one
C30_Witness ==
    /\ call.fn = "insertDiffClaims" /\ call.done
    /\ call.bulkSize = 3
    /\ Len(NewCandidates) = 4
    /\ Len(call.res.batches) = 2
    /\ Len(call.res.batches[1]) = 3
    /\ Len(call.res.batches[2]) = 1

(************************* the lenient decoders *****************************)
\* C28: for every identifier string s, cidOrObj decodes the JSON string s and
\* the JSON object {"/": s} to the same value s; an object without the
\* reserved key, or with a value under it that is no string, is an error.
C28_CidForms ==
    (call.fn = "cidOrObj" /\ call.done) =>
        /\ \A s \in CidStrings :
              call.arg \in {JStr(s), JObj(<<[k |-> <<"/">>, v |-> JStr(s)]>>)}
                  => call.res = [ok |-> TRUE, v |-> s]
        /\ (call.arg.t = "obj"
               /\ \A k \in 1..Len(call.arg.m) :
                     call.arg.m[k].k = <<"/">> => call.arg.m[k].v.t # "str")
              => ~call.res.ok

\* the object form of a two-character identifier has been decoded
C28_Witness ==
    /\ call.fn = "cidOrObj" /\ call.done
    /\ call.arg = JObj(<<[k |-> <<"/">>, v |-> JStr(<<"a", "b">>)]>>)
    /\ call.res.ok
    /\ call.res.v = <<"a", "b">>

\* C29: for every integer n of the range of the field, the numeric decoder
\* (u64OrStr for Provider, Client and Sector, i64OrStr for Size, TermMin,
\* TermMax and TermStart) decodes the JSON number n and the JSON string of
\* the decimal digits of n to the same value n.
C29_NumberForms ==
    (call.fn \in {"u64OrStr", "i64OrStr"} /\ call.done /\ call.shape # "other") =>
        /\ call.fn = "u64OrStr" => call.n \in 0..MaxUint
        /\ call.fn = "i64OrStr" => call.n \in (0 - MaxInt - 1)..MaxInt
        /\ call.arg.t = (IF call.shape = "number" THEN "num" ELSE "str")
        /\ call.arg.s = Dec(call.n)
        /\ call.res = [ok |-> TRUE, v |-> call.n]

\* the string of the digits of the least signed integer has been decoded
C29_Witness ==
    /\ call.fn = "i64OrStr" /\ call.done
    /\ call.shape = "string"
    /\ call.n = 0 - MaxInt - 1
    /\ call.arg.s[1] = "-"
    /\ call.res.ok
    /\ call.res.v = call.n

(************************* active and inactive providers ********************)
\* the text "f0<id>" of the two provider ids of the model
AddrText(P) ==
    IF P = 1001 THEN <<"f", "0", "1", "0", "0", "1">>
    ELSE <<"f", "0", "1", "0", "0", "2">>

\* the claims of provider P in the dump
ClaimsOf(P) == {id \in DOMAIN dump : dump[id].Provider = P}

\* no document with the tuple of record r was ever stored but by the current
\* run of instance 1
NewTuple(r) ==
    \A d \in everStored :
        Tuple(d.doc) = <<r.Provider, r.Data, r.Sector, r.TermStart>> => d \in Made(1)

\* C27: for a dump with one claim of the active provider P, its other claims
\* being of a provider that is not active, the candidates of the run are
\* that one claim; and when its tuple is new and the write of the run
\* succeeds, the run inserts exactly one document, with provider_id P and
\* miner_addr "f0" followed by the decimal digits of P.
C27_ScenarioA ==
    \A P \in Miners :
        (Cardinality(ClaimsOf(P)) = 1 /\ ClaimsOf(P) # DOMAIN dump
            /\ hist[1].cur.active = {P}) =>
            LET id == CHOOSE x \in ClaimsOf(P) : TRUE IN
            /\ pc[1] = "scan" =>
                  /\ Len(loc[1].claimsList) = 1
                  /\ loc[1].claimsList[1].claim_id = id
                  /\ loc[1].claimsList[1].provider_id = P
            /\ (pc[1] = "idle" /\ hist[1].cur.result = "ok" /\ hist[1].cur.clean
                   /\ NewTuple(dump[id])) =>
                  /\ Cardinality(Made(1)) = 1
                  /\ hist[1].cur.added = 1
                  /\ \A d \in Made(1) :
                        /\ d.doc.claim_id = id
                        /\ d.doc.provider_id = P
                        /\ d.doc.miner_addr = AddrText(P)

\* the dump holds a claim of 1001 and a claim of 1002, only 1002 is active,
\* and the run has inserted the one document of 1002
C27_Witness ==
    /\ dump[1].Provider = 1001 /\ dump[MaxClaims].Provider = 1002
    /\ Cardinality(ClaimsOf(1002)) = 1
    /\ hist[1].cur.active = {1002}
    /\ pc[1] = "idle" /\ hist[1].cur.result = "ok" /\ hist[1].cur.clean
    /\ NewTuple(dump[MaxClaims])
    /\ \E d \in Made(1) : d.doc.provider_id = 1002 /\ d.doc.miner_addr = AddrText(1002)
    /\ Cardinality(store) = 1

(************************* epoch conversions ********************************)
\* the instant is filecoinGenesisUnix + 30 * e seconds of Unix time
AtEpoch(t, e) ==
    /\ ~t.zero
    /\ (t.hi - 24388 - 30 * (e \div 65536)) * 65536 + (t.lo - 14432)
          = 30 * (e % 65536)

\* C35 (as claimed): for every epoch e from 0 to 2^31-1 the int32 conversion
\* EpochToTime(e) and the int64 conversion EpochToTime64(e) return the same
\* instant, 1598306400 + 30 * e seconds of Unix time; for every negative
\* epoch both return the zero time.
C35_EpochConversionsAgree ==
    (call.fn = "EpochToTime" /\ call.done) =>
        IF call.epoch < 0
        THEN call.res.t32.zero /\ call.res.t64.zero
        ELSE /\ call.res.t32 = call.res.t64
             /\ AtEpoch(call.res.t64, call.epoch)

(************************* tasks from claims ********************************)
\* the tasks and the results of the finished call that are about document k
TasksOf(k) ==
    SelectSeq(call.res.tasks, LAMBDA t : t.ID = call.documents[k].MinerAddr)
ResultsOf(k) ==
    SelectSeq(call.res.results, LAMBDA r : r.ID = call.documents[k].MinerAddr)

\* outcome 1: one task with module HTTP, no result
OneTask(k) ==
    /\ Len(TasksOf(k)) = 1
    /\ TasksOf(k)[1].Module = HTTP
    /\ Len(ResultsOf(k)) = 0

\* outcome 2: no task, exactly one failed result per module
FailedResults(k) ==
    /\ Len(TasksOf(k)) = 0
    /\ Len(ResultsOf(k)) = 3
    /\ \A m \in moduleMetadataMap :
          Cardinality({j \in 1..3 : ResultsOf(k)[j].Module = m}) = 1
    /\ \A j \in 1..3 : ~ResultsOf(k)[j].Success

\* outcome 3: nothing appended
Nothing(k) == Len(TasksOf(k)) = 0 /\ Len(ResultsOf(k)) = 0

\* C36: for each claim AddTasks appends one HTTP task and no result, or no
\* task and one failed result per module of moduleMetadataMap (when the
\* location fails with a bogon, invalid-IP, host-lookup or no-valid-multiaddr
\* error, or the peer id does not decode), or nothing (when the provider is
\* not resolved or the location fails with any other error); so there are
\* at most as many tasks as claims and the results come in threes.
C36_AddTasksOutcome ==
    (call.fn = "AddTasks" /\ call.done) =>
        /\ \A k \in 1..Len(call.documents) :
              LET a == call.answers[k]
              IN /\ OneTask(k) <=> (a.provider /\ a.location = "ok" /\ a.peer)
                 /\ FailedResults(k) <=>
                       /\ a.provider
                       /\ \/ a.location \in
                                {"bogon", "invalidip", "hostlookup", "novalidmultiaddr"}
                          \/ a.location = "ok" /\ ~a.peer
                 /\ Nothing(k) <=>
                       \/ ~a.provider
                       \/ a.location \notin
                            {"ok", "bogon", "invalidip", "hostlookup", "novalidmultiaddr"}
                 /\ Cardinality({o \in {1, 2, 3} :
                        \/ o = 1 /\ OneTask(k)
                        \/ o = 2 /\ FailedResults(k)
                        \/ o = 3 /\ Nothing(k)}) = 1
        /\ Len(call.res.tasks) <= Len(call.documents)
        /\ Len(call.res.results) % 3 = 0

\* a call on two claims: the first fails on a bogon address and gets three
\* results, the second becomes a task
C36_Witness ==
    /\ call.fn = "AddTasks" /\ call.done
    /\ Len(call.documents) = 2
    /\ call.answers[1].location = "bogon"
    /\ FailedResults(1)
    /\ OneTask(2)
    /\ Len(call.res.results) = 3 /\ Len(call.res.tasks) = 1

(************************* keys of two claims *******************************)
\* C37: claimKey is injective: the keys of two claims are the same string
\* exactly when their uniqueness tuples are equal, also when a content id
\* holds the separator; so the diff stages a candidate exactly when its tuple
\* differs from the persisted one, and never discards it for a collision.
C37_ClaimKeyInjective ==
    (call.fn = "claimKey" /\ call.done) =>
        /\ (call.res.persistedKey = call.res.candidateKey)
              <=> (Tuple(call.persisted) = Tuple(call.candidate))
        /\ call.res.staged <=> (Tuple(call.persisted) # Tuple(call.candidate))

\* two tuples that differ only in where the separator falls: content ids
\* "2|1" and "|1" with providers 1 and 12
C37_Witness ==
    /\ call.fn = "claimKey" /\ call.done
    /\ call.persisted.data_cid = <<"2", "|", "1">>
    /\ call.candidate.data_cid = <<"|", "1">>
    /\ call.persisted.provider_id = 1 /\ call.candidate.provider_id = 12
    /\ call.res.persistedKey # call.res.candidateKey
    /\ call.res.staged

(************************* the order of the steps ***************************)
\* C31: within a run the file is opened only after the stability loop found
\* the size unchanged; the key scan follows the parse and precedes the first
\* batch write; every write of the run to the store follows the building of
\* the active set and the complete parse of the file; and the file is
\* deleted only after the last batch has been submitted.
C31_StepOrder ==
    [][/\ (pc'[1] = "active" /\ pc[1] # "active") =>
              (pc[1] = "poll" /\ fileExists /\ fileSize = loc[1].prevSize)
       /\ (pc'[1] = "parse" /\ pc[1] # "parse") => pc[1] = "active"
       /\ (hist'[1].cur.opened /\ ~hist[1].cur.opened) => pc[1] = "parse"
       /\ (pc'[1] = "scan" /\ pc[1] # "scan") =>
              (pc[1] = "parse" /\ hist'[1].cur.opened /\ ~hist'[1].cur.parseErr)
       /\ (pc[1] = "scan" /\ pc'[1] # "scan") =>
              (hist[1].cur.opened /\ hist[1].cur.batches = <<>> /\ Made(1) = {})
       /\ (pc'[1] \in {"flush", "bulk"} /\ pc[1] \notin {"flush", "bulk"}) =>
              pc[1] = "scan"
       /\ (\E d \in store' \ store : d.by = 1) =>
              /\ pc[1] = "bulk"
              /\ hist[1].cur.active # {} /\ hist[1].cur.active = loc[1].active
              /\ hist[1].cur.opened /\ ~hist[1].cur.parseErr
       /\ (fileExists /\ ~fileExists') =>
              /\ pc[1] = "remove"
              /\ loc[1].idx > Len(loc[1].claimsList)
              /\ loc[1].batch = <<>>
              /\ SumOf(hist[1].cur.batches, "n") = loc[1].prepared
      ]_vars

\* a run has gone through every step: it wrote two claims in two batches
\* and deleted the file
C31_Witness ==
    /\ pc[1] = "idle"
    /\ hist[1].cur.result = "ok"
    /\ hist[1].cur.opened
    /\ hist[1].cur.added = 2
    /\ cfgBulkSize = 1
    /\ ~fileExists

(************************* no active provider *******************************)
\* C33: when loadActiveProviders succeeds with an empty set the run ends at
\* once and without error: it does not open or parse the file, it reads and
\* writes nothing in the store, and the file stays on disk.
C33_EmptyActiveSet ==
    [][(/\ pc[1] = "active" /\ pc'[1] # "active"
        /\ ~hist'[1].cur.filterErr
        /\ hist'[1].cur.active = {}) =>
           /\ pc'[1] = "idle"
           /\ hist'[1].cur.result = "noactive"
           /\ ~ReturnsErr(hist'[1].cur.result)
           /\ ~hist'[1].cur.opened /\ ~hist'[1].cur.parseErr
           /\ hist'[1].cur.batches = <<>>
           /\ loc'[1].existingKeys = {}
           /\ store' = store /\ everStored' = everStored
           /\ {d \in store' : d.by = 1 /\ d.run = runs'[1]} = {}
           /\ fileExists /\ fileExists' /\ fileSize' = fileSize
      ]_vars

\* a second run finds no provider with power: the claims of the first run
\* are in the store, the file of the day is on disk
C33_Witness ==
    /\ pc[1] = "idle"
    /\ runs[1] = 2
    /\ hist[1].cur.result = "noactive"
    /\ hist[1].prev.result = "ok"
    /\ store # {}
    /\ fileExists

(************************* counts of the diff *******************************)
\* the tuples of the operations the run has staged: in the batches it has
\* submitted and in the batch it is filling or has in flight
StagedTuples ==
    UNION {hist[1].cur.batches[k].tuples : k \in 1..Len(hist[1].cur.batches)}
    \cup {Tuple(loc[1].batch[k]) : k \in 1..Len(loc[1].batch)}

\* C34: at every point of insertDiffClaims the count of inserts is at most
\* the count of staged operations; and when several claim ids of the dump
\* share a uniqueness tuple that the index does not hold, each is staged but
\* the run creates at most one document for the tuple and counts at most one
\* insert for it.
C34_Counts ==
    /\ loc[1].inserted <= loc[1].prepared
    /\ loc[1].inserted + loc[1].upserted <= loc[1].prepared
    /\ \A d1 \in Made(1) : \A d2 \in Made(1) :
          Tuple(d1.doc) = Tuple(d2.doc) => d1 = d2
    /\ pc[1] \in {"flush", "bulk", "remove"} =>
          /\ loc[1].inserted <= Cardinality(Made(1))
          /\ Cardinality(Made(1)) <= Cardinality(StagedTuples)
          /\ Cardinality(StagedTuples) <= loc[1].prepared

\* the dump holds two claim ids with one tuple that the index did not hold:
\* both were staged, one document was created and one insert counted
C34_Witness ==
    /\ pc[1] = "remove"
    /\ Tuple(ToDBClaim(1, dump[1], 0)) = Tuple(ToDBClaim(2, dump[2], 0))
    /\ loc[1].existingKeys = {}
    /\ loc[1].prepared = 2
    /\ loc[1].inserted = 1
    /\ Cardinality(Made(1)) = 1

(************************* shutdown during a batch write ********************)
\* C32 (as claimed): a shutdown signalled while a batch write is in flight
\* does not interrupt it: the bulk write that was in flight when the
\* shutdown came returns only once the server has gone through every
\* operation of its batch, as one that returns with no shutdown signalled.
C32_BatchNotInterrupted ==
    [][(/\ pc[1] = "bulk" /\ pc'[1] # "bulk"
        /\ sched[1].inflight = <<runs[1], BatchNo(1)>>) =>
           loc[1].todo = {}
      ]_vars
====
